---- MODULE Spec2Model ----
(***************************************************************************)
(* Model of package gsm (src/secret.go, lines 1-419): a client of the      *)
(* Secret Manager REST API that authenticates through the instance         *)
(* metadata server.  Each of the four public operations runs up to four    *)
(* retry loops (project ID, access token, secret access / secret create,   *)
(* add version); every loop makes at most maxRetries attempts and waits    *)
(* retryDelay between attempts unless the context is done.                 *)
(*                                                                         *)
(* Text is modelled as a sequence of pieces.  Names, project IDs, metadata *)
(* bodies and base64 text are sequences of single characters; error        *)
(* messages are sequences of message fragments.  Secret values are         *)
(* sequences of bytes (0..255).                                            *)
(***************************************************************************)
EXTENDS Integers, Sequences, FiniteSets, TLC

\* ------------------------------------------------------------------------
\* Program constants
\* ------------------------------------------------------------------------
maxRetries == 3

\* Bounds of the quantifiers {4,28} and {1,255} of the two patterns.
ProjectIDMidMin == 4
ProjectIDMidMax == 28
SecretNameMin == 1
SecretNameMax == 255

StatusOK == 200
StatusCreated == 201
StatusConflict == 409

\* maxBodySize = 10 * 1024 * 1024, the most bytes read of a response body
maxBodySize == 10485760

\* The two services.
metadataURL == "http://metadata.google.internal/computeMetadata/v1"
apiURL == "https://secretmanager.googleapis.com/v1"

\* ------------------------------------------------------------------------
\* Bounds of the model
\* ------------------------------------------------------------------------
\* Longest secret value (in bytes) stored or served.
MaxValueLen == 3

\* The most disturbances (lost or failed answers, cancellations) in a
\* behaviour of the service model
MaxFaults == 2

\* ------------------------------------------------------------------------
\* Characters and patterns
\* ------------------------------------------------------------------------
Lower == {"a","b","c","d","e","f","g","h","i","j","k","l","m",
          "n","o","p","q","r","s","t","u","v","w","x","y","z"}
Upper == {"A","B","C","D","E","F","G","H","I","J","K","L","M",
          "N","O","P","Q","R","S","T","U","V","W","X","Y","Z"}
Digit == {"0","1","2","3","4","5","6","7","8","9"}
Space == {" ", "\n", "\t", "\r"}

Rep(ch, n) == [i \in 1..n |-> ch]

\* ^[a-z][a-z0-9-]{4,28}[a-z0-9]$
projectIDRegex(s) ==
    /\ Len(s) >= ProjectIDMidMin + 2
    /\ Len(s) <= ProjectIDMidMax + 2
    /\ s[1] \in Lower
    /\ \A i \in 2..(Len(s) - 1) : s[i] \in Lower \cup Digit \cup {"-"}
    /\ s[Len(s)] \in Lower \cup Digit

\* Variant of secretNameRegex: the upper bound of the quantifier is one too
\* large.
secretNameRegexLong(s) ==
    /\ Len(s) >= SecretNameMin
    /\ Len(s) <= SecretNameMax + 1
    /\ \A i \in 1..Len(s) : s[i] \in Lower \cup Upper \cup Digit \cup {"_", "-"}

\* ^[a-zA-Z0-9_-]{1,255}$
secretNameRegex(s) ==
    /\ Len(s) >= SecretNameMin
    /\ Len(s) <= SecretNameMax
    /\ \A i \in 1..Len(s) : s[i] \in Lower \cup Upper \cup Digit \cup {"_", "-"}

\* strings.TrimSpace
RECURSIVE TrimLeft(_)
TrimLeft(s) == IF s # <<>> /\ Head(s) \in Space THEN TrimLeft(Tail(s)) ELSE s
RECURSIVE TrimRight(_)
TrimRight(s) ==
    IF s # <<>> /\ s[Len(s)] \in Space THEN TrimRight(SubSeq(s, 1, Len(s) - 1)) ELSE s
TrimSpace(s) == TrimRight(TrimLeft(s))

\* ------------------------------------------------------------------------
\* base64.StdEncoding
\* ------------------------------------------------------------------------
B64Alphabet ==
    <<"A","B","C","D","E","F","G","H","I","J","K","L","M","N","O","P",
      "Q","R","S","T","U","V","W","X","Y","Z","a","b","c","d","e","f",
      "g","h","i","j","k","l","m","n","o","p","q","r","s","t","u","v",
      "w","x","y","z","0","1","2","3","4","5","6","7","8","9","+","/">>
B64Pad == "="
B64Chars == {B64Alphabet[i] : i \in 1..64}
B64Char(n) == B64Alphabet[n + 1]
B64Index(ch) == (CHOOSE i \in 1..64 : B64Alphabet[i] = ch) - 1

\* EncodeToString: three bytes become four characters; a final group of one
\* or two bytes is padded with "=".
RECURSIVE EncodeToString(_)
EncodeToString(b) ==
    IF Len(b) = 0 THEN <<>>
    ELSE IF Len(b) = 1 THEN
        << B64Char(b[1] \div 4), B64Char((b[1] % 4) * 16), B64Pad, B64Pad >>
    ELSE IF Len(b) = 2 THEN
        << B64Char(b[1] \div 4),
           B64Char((b[1] % 4) * 16 + b[2] \div 16),
           B64Char((b[2] % 16) * 4), B64Pad >>
    ELSE
        << B64Char(b[1] \div 4),
           B64Char((b[1] % 4) * 16 + b[2] \div 16),
           B64Char((b[2] % 16) * 4 + b[3] \div 64),
           B64Char(b[3] % 64) >> \o EncodeToString(SubSeq(b, 4, Len(b)))

RECURSIVE StripNewlines(_)
StripNewlines(s) ==
    IF s = <<>> THEN <<>>
    ELSE IF Head(s) \in {"\n", "\r"} THEN StripNewlines(Tail(s))
    ELSE <<Head(s)>> \o StripNewlines(Tail(s))

\* Bytes of a run of alphabet characters whose length is 0, 2 or 3 mod 4.
RECURSIVE DecodeQuanta(_)
DecodeQuanta(s) ==
    IF Len(s) < 2 THEN <<>>
    ELSE LET n1 == B64Index(s[1])
             n2 == B64Index(s[2])
             b1 == n1 * 4 + n2 \div 16
         IN IF Len(s) = 2 THEN <<b1>>
            ELSE LET n3 == B64Index(s[3])
                     b2 == (n2 % 16) * 16 + n3 \div 4
                 IN IF Len(s) = 3 THEN <<b1, b2>>
                    ELSE LET n4 == B64Index(s[4])
                             b3 == (n3 % 4) * 64 + n4
                         IN <<b1, b2, b3>> \o DecodeQuanta(SubSeq(s, 5, Len(s)))

\* Variant of DecodeString: the unpadded encoding (base64.RawStdEncoding),
\* for which "=" is not a legal character.
DecodeStringRaw(s) ==
    LET t == StripNewlines(s)
    IN IF Len(t) % 4 = 1 \/ \E i \in 1..Len(t) : t[i] \notin B64Chars
       THEN [ok |-> FALSE, bytes |-> <<>>]
       ELSE [ok |-> TRUE, bytes |-> DecodeQuanta(t)]

\* DecodeString: newlines are ignored, the text must be whole groups of four
\* characters, padding may only end the last group, every other character
\* must belong to the alphabet.  Result: [ok, bytes].
DecodeString(s) ==
    LET t == StripNewlines(s)
        n == Len(t)
        pad == IF n >= 2 /\ t[n] = B64Pad
               THEN (IF t[n - 1] = B64Pad THEN 2 ELSE 1)
               ELSE 0
        d == SubSeq(t, 1, n - pad)
    IN IF n % 4 # 0 \/ \E i \in 1..Len(d) : d[i] \notin B64Chars
       THEN [ok |-> FALSE, bytes |-> <<>>]
       ELSE [ok |-> TRUE, bytes |-> DecodeQuanta(d)]

\* ------------------------------------------------------------------------
\* Inputs of the callers
\* ------------------------------------------------------------------------
\* Secret values: byte strings of every length up to MaxValueLen, so that
\* every padding of the base64 text occurs; the bytes vary over the range.
ByteAt(i) == (77 + 89 * (i - 1)) % 256
Values == { [i \in 1..n |-> ByteAt(i)] : n \in 0..MaxValueLen }

MyProject == <<"m","y","-","p","r","o","j","e","c","t">>
MySecret == <<"k","e","y","_","1","-","A">>

ProjectIDs ==
    { MyProject,
      <<>>,
      <<"s","h","o","r","t">>,
      <<"M","y","-","p","r","o","j","e","c","t">>,
      <<"m","y","-","p","r","o","j","e","c","-">>,
      <<"m","y","_","p","r","o","j","e","c","t">>,
      Rep("a", ProjectIDMidMax + 3) }

SecretNames ==
    { MySecret,
      <<>>,
      <<"a","/","b">>,
      <<"a"," ","b">>,
      Rep("a", SecretNameMax + 1) }

\* ------------------------------------------------------------------------
\* Errors: nil is the empty message
\* ------------------------------------------------------------------------
nil == <<>>

AlreadyExists == "secret already exists"

\* strings.Contains(err.Error(), needle), at the grain of message fragments.
Contains(msg, needle) == \E i \in 1..Len(msg) : msg[i] = needle

\* ctx.Err()
ctxErr == <<"context canceled">>

Itoa(n) ==
    CASE n = 200 -> "200"
      [] n = 201 -> "201"
      [] n = 204 -> "204"
      [] n = 302 -> "302"
      [] n = 403 -> "403"
      [] n = 404 -> "404"
      [] n = 409 -> "409"
      [] n = 503 -> "503"
      [] OTHER -> "0"

\* ------------------------------------------------------------------------
\* The network: what httpClient.Do can return for a request
\* ------------------------------------------------------------------------
Loops == {"projectID", "token", "access", "create", "addVersion"}

\* A result of httpClient.Do.  net: Do returned an error (cause says why).
\* Otherwise status is the status code, val the body, json whether the body
\* is a JSON object, present whether that object has the field the caller
\* reads (access_token, payload.data), readOK whether the body can be read
\* to its end.  wf and plain describe the server's side: the response is a
\* well-formed answer carrying plain.  The body is lead bytes of white
\* space, then len bytes of content (the text val, or the JSON object), then
\* trail bytes of white space.
Resp(net, cause, status, json, present, val, readOK, wf, plain) ==
    [net |-> net, cause |-> cause, status |-> status, json |-> json,
     present |-> present, val |-> val, readOK |-> readOK, wf |-> wf,
     plain |-> plain, lead |-> 0, len |-> Len(val), trail |-> 0]

\* The same response with another layout of its body.
Pad(r, lead, len, trail) == [r EXCEPT !.lead = lead, !.len = len, !.trail = trail]

\* io.LimitReader(resp.Body, maxBodySize): the body's size, whether the
\* reader stops before its end, and how much of the content it delivers.
Size(r) == r.lead + r.len + r.trail
Truncated(r) == Size(r) > maxBodySize
Kept(r) ==
    IF r.lead >= maxBodySize THEN 0
    ELSE IF r.lead + r.len <= maxBodySize THEN r.len
    ELSE maxBodySize - r.lead

\* io.ReadAll of the limited reader, for a body of text, less the white
\* space around the text.
ReadAll(r) == SubSeq(r.val, 1, Kept(r))

\* json.Unmarshal / Decoder.Decode of the limited reader succeed when the
\* body is a JSON object and the reader delivers the whole of it.
JsonValid(r) == r.json /\ Kept(r) = r.len

NoResp == Resp(FALSE, "", 0, FALSE, FALSE, <<>>, TRUE, FALSE, <<>>)
NetErr == Resp(TRUE, "connection refused", 0, FALSE, FALSE, <<>>, TRUE, FALSE, <<>>)
CtxNetErr == Resp(TRUE, "context canceled", 0, FALSE, FALSE, <<>>, TRUE, FALSE, <<>>)
StatusResp(st, body) == Resp(FALSE, "", st, FALSE, FALSE, body, TRUE, TRUE, <<>>)
ReadErrResp == Resp(FALSE, "", StatusOK, FALSE, FALSE, <<>>, FALSE, FALSE, <<>>)
TextResp(txt, wf, plain) == Resp(FALSE, "", StatusOK, FALSE, FALSE, txt, TRUE, wf, plain)
JsonResp(present, val, wf, plain) ==
    Resp(FALSE, "", StatusOK, TRUE, present, val, TRUE, wf, plain)
GarbageResp == Resp(FALSE, "", StatusOK, FALSE, FALSE, <<"<","!",">">>, TRUE, FALSE, <<>>)

Token == <<"ya29.token">>

\* The token the metadata server of the service model hands out to call p:
\* every lookup gets a token of its own.
TokenOf(p) == <<"ya29.token", IF p = 1 THEN ".1" ELSE ".2">>

ErrorBodies == { <<"unavailable">>, <<AlreadyExists>> }

ProjectIDResponses ==
    { NetErr, StatusResp(403, <<>>), StatusResp(503, <<>>), ReadErrResp,
      TextResp(MyProject \o <<"\n">>, TRUE, MyProject),
      TextResp(<<" ">> \o MyProject, TRUE, MyProject),
      TextResp(<<"B","a","d">>, TRUE, <<"B","a","d">>),
      TextResp(<<" ", "\n">>, FALSE, <<>>),
      TextResp(<<>>, FALSE, <<>>),
      Pad(TextResp(MyProject, TRUE, MyProject), maxBodySize - 6, Len(MyProject), 1) }

TokenResponses ==
    { NetErr, StatusResp(403, <<>>), StatusResp(503, <<>>), ReadErrResp,
      GarbageResp,
      JsonResp(TRUE, Token, TRUE, Token),
      JsonResp(TRUE, <<>>, FALSE, <<>>),
      JsonResp(FALSE, <<>>, FALSE, <<>>),
      Pad(JsonResp(TRUE, Token, TRUE, Token), 0, maxBodySize + 1000, 0) }

AccessResponses ==
    { NetErr, ReadErrResp, GarbageResp,
      StatusResp(StatusCreated, <<>>), StatusResp(403, <<>>),
      StatusResp(StatusConflict, <<>>), StatusResp(503, <<>>),
      JsonResp(FALSE, <<>>, FALSE, <<>>),
      JsonResp(TRUE, <<"T","Q">>, FALSE, <<>>),
      JsonResp(TRUE, <<"T","Q","=","!">>, FALSE, <<>>),
      Pad(JsonResp(TRUE, <<"e","H","h","4">>, TRUE, <<120,120,120>>),
          0, maxBodySize + 1000, 0),
      Pad(JsonResp(TRUE, <<"e","H","h","4">>, TRUE, <<120,120,120>>),
          0, 28, maxBodySize) }
    \cup { JsonResp(TRUE, EncodeToString(v), TRUE, v) : v \in Values }

CreateResponses ==
    { NetErr, StatusResp(StatusOK, <<>>), StatusResp(StatusCreated, <<>>) }
    \cup { StatusResp(st, b) : st \in {403, StatusConflict, 503}, b \in ErrorBodies }

AddVersionResponses ==
    { NetErr, StatusResp(StatusOK, <<>>), StatusResp(StatusCreated, <<>>) }
    \cup { StatusResp(st, <<"unavailable">>) : st \in {403, StatusConflict, 503} }

Responses(loop) ==
    CASE loop = "projectID" -> ProjectIDResponses
      [] loop = "token" -> TokenResponses
      [] loop = "access" -> AccessResponses
      [] loop = "create" -> CreateResponses
      [] loop = "addVersion" -> AddVersionResponses

\* Status codes of every class a server can answer with: success (200,
\* 201, 204), redirection that httpClient.Do hands back (302), client error
\* (403, 409) and server error (503).
Statuses == {StatusOK, StatusCreated, 204, 302, 403, StatusConflict, 503}

\* The answers by status: what a request of each loop can get when the
\* Secret Manager API answers with any of Statuses, the metadata server
\* answers as documented, and the network may fail.
StatusResponses(loop) ==
    CASE loop = "projectID" -> { NetErr, TextResp(MyProject \o <<"\n">>, TRUE, MyProject) }
      [] loop = "token" -> { NetErr, JsonResp(TRUE, Token, TRUE, Token) }
      [] loop = "access" ->
           { NetErr, StatusResp(403, <<>>),
             JsonResp(TRUE, EncodeToString(<<ByteAt(1)>>), TRUE, <<ByteAt(1)>>) }
      [] loop = "create" ->
           { NetErr, StatusResp(503, <<AlreadyExists>>) }
               \cup { StatusResp(st, <<>>) : st \in Statuses }
      [] loop = "addVersion" ->
           { NetErr } \cup { StatusResp(st, <<>>) : st \in Statuses }

\* How the server side would describe a response, whatever the client makes
\* of it: a transient failure (transport error or 5xx), a conflict, another
\* client error, a 200 whose body is larger than maxBodySize, the loop's
\* success, or anything else.
SuccessStatuses(loop) ==
    IF loop = "create" THEN {StatusOK, StatusCreated} ELSE {StatusOK}

Tag(loop, r) ==
    IF r.net THEN (IF r.cause = "context canceled" THEN "ctx" ELSE "transient")
    ELSE IF r.status >= 500 THEN "transient"
    ELSE IF r.status = StatusConflict THEN "409"
    ELSE IF r.status >= 400 THEN "4xx"
    ELSE IF r.status = StatusOK /\ Truncated(r) THEN "big"
    ELSE IF r.status \in SuccessStatuses(loop) /\ r.wf THEN "ok"
    ELSE "other"

\* ------------------------------------------------------------------------
\* State
\* ------------------------------------------------------------------------
Procs == {1, 2}

\* calls[p] is one top-level call (one goroutine of a caller):
\*   op        the public function called ("none" before the call)
\*   pc        "ready"    not called yet
\*             "idle"     never called in this behaviour
\*             "send"     at the top of a loop iteration that does not wait,
\*                        or past the wait: about to call httpClient.Do
\*             "wait"     in the select between time.After and ctx.Done
\*             "inflight" inside httpClient.Do
\*             "done"     returned
\*   loop      the retry loop being run
\*   attempt   the loop variable
\*   ctxDone   the caller's context is cancelled or past its deadline
\*   onWire    the request of the current httpClient.Do reached the network
\*   pid, name, value   the arguments (pid also holds the detected project)
\*   tok       the access token
\*   lastErr, createErr   the loops' remembered errors
\*   retVal, retErr       the returned values
\* and, for observation only:
\*   reqs[l]   requests put on the network by loop l
\*   waits[l]  retry waits started by loop l
\*   answers[l]  the answers received by loop l, summarised: their number
\*             n, what the last one was (Tag), and whether all the ones
\*             before it were transient failures
\*   lastResp  the last answer received
\*   req       the request last handed to httpClient.Do
\*   body      how the body of the last answer was left: "none" (no answer
\*             yet, or no response), "closed" (closed unread), "partial"
\*             (read in part, then closed), "drained" (read to its end,
\*             then closed), "open"
\* server is the other side of the network:
\*   kind      "any": every answer a server or the network can give is
\*             possible at any time, and what the servers hold is not
\*             followed; "service": the metadata server and Secret Manager
\*             answer as documented, for the one secret MySecret of
\*             MyProject, but for at most MaxFaults disturbances (answers
\*             of Secret Manager lost or replaced, cancellations);
\*             "concurrent": the same service, with callers that do not
\*             wait for one another; "any, no value": as "any", with
\*             callers that store the empty value only; "any status": as
\*             "any, no value", with a Secret Manager API that answers
\*             with any of Statuses and a metadata server that answers as
\*             documented
\*   exists    the secret exists
\*   versions  its versions, oldest first: the payload data stored, and
\*             for observation the value and the call it came from
\*   faults    the disturbances so far
VARIABLES calls, server

vars == <<calls, server>>

\* No request made yet.
NoReq ==
    [method |-> "", base |-> "", path |-> "", project |-> <<>>, secret |-> <<>>,
     flavor |-> "", auth |-> <<>>, ctype |-> "", data |-> <<>>, body |-> <<>>]

NoAnswers == [n |-> 0, last |-> "none", transientBefore |-> TRUE]

NoCall ==
    [op |-> "none", pc |-> "ready", loop |-> "none", attempt |-> 0,
     ctxDone |-> FALSE, onWire |-> FALSE,
     pid |-> <<>>, name |-> <<>>, value |-> <<>>, tok |-> <<>>,
     lastErr |-> nil, createErr |-> nil, retVal |-> <<>>, retErr |-> nil,
     reqs |-> [l \in Loops |-> 0], waits |-> [l \in Loops |-> 0],
     answers |-> [l \in Loops |-> NoAnswers], lastResp |-> NoResp,
     req |-> NoReq, body |-> "none"]

AnyServer == [kind |-> "any", exists |-> FALSE, versions |-> <<>>, faults |-> 0]
Service == [kind |-> "service", exists |-> FALSE, versions |-> <<>>, faults |-> 0]

\* One call, against servers and a network that may answer anything.
Init ==
    /\ calls = [p \in Procs |-> IF p = 1 THEN NoCall ELSE [NoCall EXCEPT !.pc = "idle"]]
    /\ server = AnyServer

\* Two calls, the second after the first has returned nil, against the
\* service, the secret not existing yet.
InitService ==
    /\ calls = [p \in Procs |-> NoCall]
    /\ server = Service

\* One call that stores no other value than the empty one, against a Secret
\* Manager API that may answer with any status.
InitStatus ==
    /\ calls = [p \in Procs |-> IF p = 1 THEN NoCall ELSE [NoCall EXCEPT !.pc = "idle"]]
    /\ server = [AnyServer EXCEPT !.kind = "any status"]

\* One call that stores no other value than the empty one, against servers
\* and a network that may answer anything.
InitFair ==
    /\ calls = [p \in Procs |-> IF p = 1 THEN NoCall ELSE [NoCall EXCEPT !.pc = "idle"]]
    /\ server = [AnyServer EXCEPT !.kind = "any, no value"]

\* Two calls made concurrently, against the same service.
InitConcurrent ==
    /\ calls = [p \in Procs |-> NoCall]
    /\ server = [Service EXCEPT !.kind = "concurrent"]

\* ------------------------------------------------------------------------
\* Control flow shared by the five loops
\* ------------------------------------------------------------------------
\* return val, err
Return(c, val, err) == [c EXCEPT !.pc = "done", !.retVal = val, !.retErr = err]

\* Variant of StartLoop: the wait is not skipped for attempt = 0.
StartLoopWaitFirst(c, loop) ==
    [c EXCEPT !.loop = loop, !.attempt = 0, !.pc = "wait",
              !.waits[loop] = @ + 1,
              !.lastErr = nil, !.createErr = nil]

\* Entering a loop: "for attempt := range maxRetries" with attempt = 0, which
\* skips the wait.
StartLoop(c, loop) ==
    [c EXCEPT !.loop = loop, !.attempt = 0, !.pc = "send",
              !.lastErr = nil, !.createErr = nil]

\* Variant of FetchFromProjectEntry: the token is kept in a variable of the
\* package, and a call that finds one there skips the lookup.
FetchFromProjectEntryCached(c, pid, name) ==
    LET holders == {q \in Procs : calls[q].tok # <<>>}
    IN IF ~projectIDRegex(pid)
       THEN Return(c, <<>>, <<"invalid project ID format: ">> \o pid)
       ELSE IF ~secretNameRegex(name)
       THEN Return(c, <<>>, <<"invalid secret name format">>)
       ELSE IF holders # {}
       THEN StartLoop([c EXCEPT !.pid = pid, !.name = name,
                                !.tok = calls[CHOOSE q \in holders : TRUE].tok],
                      "access")
       ELSE StartLoop([c EXCEPT !.pid = pid, !.name = name], "token")

\* FetchFromProject up to its call of getAccessToken.
FetchFromProjectEntry(c, pid, name) ==
    IF ~projectIDRegex(pid)
    THEN Return(c, <<>>, <<"invalid project ID format: ">> \o pid)
    ELSE IF ~secretNameRegex(name)
    THEN Return(c, <<>>, <<"invalid secret name format">>)
    ELSE StartLoop([c EXCEPT !.pid = pid, !.name = name], "token")

\* StoreInProject up to its call of getAccessToken.
StoreInProjectEntry(c, pid, name, value) ==
    IF ~projectIDRegex(pid)
    THEN Return(c, <<>>, <<"invalid project ID format: ">> \o pid)
    ELSE IF ~secretNameRegex(name)
    THEN Return(c, <<>>, <<"invalid secret name format">>)
    ELSE StartLoop([c EXCEPT !.pid = pid, !.name = name, !.value = value], "token")

\* Variant of AfterCreateLoop: every remembered create error aborts, the
\* conflict included.
AfterCreateLoopStrict(c) ==
    IF c.createErr # nil
    THEN Return(c, <<>>, <<"failed to create secret: ">> \o c.createErr)
    ELSE StartLoop(c, "addVersion")

\* The code after the create loop: the check of createErr, then the start of
\* the add-version loop.
AfterCreateLoop(c) ==
    IF c.createErr # nil /\ ~Contains(c.createErr, AlreadyExists)
    THEN Return(c, <<>>, <<"failed to create secret: ">> \o c.createErr)
    ELSE StartLoop(c, "addVersion")

\* Variant of AfterLoop: Fetch and Store go on with the detected project ID
\* as it is, without the validation of FetchFromProject and StoreInProject.
AfterLoopNoValidation(c) ==
    CASE c.loop = "projectID" ->
           IF c.pid = <<>>
           THEN Return(c, <<>>, <<"failed to get project ID: ">> \o c.lastErr)
           ELSE StartLoop(c, "token")
      [] c.loop = "token" ->
           IF c.tok = <<>>
           THEN Return(c, <<>>, <<"failed to get access token: ">> \o c.lastErr)
           ELSE IF c.op \in {"Fetch", "FetchFromProject"}
           THEN StartLoop(c, "access")
           ELSE StartLoop(c, "create")
      [] c.loop = "access" ->
           Return(c, <<>>, <<"failed to access secret: ">> \o c.lastErr)
      [] c.loop = "create" -> AfterCreateLoop(c)
      [] c.loop = "addVersion" ->
           Return(c, <<>>, <<"failed to add secret version: ">> \o c.lastErr)

\* Variant of AfterLoop: a fetch makes sure that the secret exists before it
\* reads it, with the create and add-version requests of a store.
AfterLoopFetchCreates(c) ==
    CASE c.loop = "projectID" ->
           IF c.pid = <<>>
           THEN Return(c, <<>>, <<"failed to get project ID: ">> \o c.lastErr)
           ELSE IF c.op = "Fetch"
           THEN FetchFromProjectEntry(c, c.pid, c.name)
           ELSE StoreInProjectEntry(c, c.pid, c.name, c.value)
      [] c.loop = "token" ->
           IF c.tok = <<>>
           THEN Return(c, <<>>, <<"failed to get access token: ">> \o c.lastErr)
           ELSE StartLoop(c, "create")
      [] c.loop = "access" ->
           Return(c, <<>>, <<"failed to access secret: ">> \o c.lastErr)
      [] c.loop = "create" -> AfterCreateLoop(c)
      [] c.loop = "addVersion" ->
           Return(c, <<>>, <<"failed to add secret version: ">> \o c.lastErr)

\* Variant of AfterLoop: getAccessToken returns t without the test for an
\* empty t.
AfterLoopNoTokenCheck(c) ==
    CASE c.loop = "projectID" ->
           IF c.pid = <<>>
           THEN Return(c, <<>>, <<"failed to get project ID: ">> \o c.lastErr)
           ELSE IF c.op = "Fetch"
           THEN FetchFromProjectEntry(c, c.pid, c.name)
           ELSE StoreInProjectEntry(c, c.pid, c.name, c.value)
      [] c.loop = "token" ->
           IF c.op \in {"Fetch", "FetchFromProject"}
           THEN StartLoop(c, "access")
           ELSE StartLoop(c, "create")
      [] c.loop = "access" ->
           Return(c, <<>>, <<"failed to access secret: ">> \o c.lastErr)
      [] c.loop = "create" -> AfterCreateLoop(c)
      [] c.loop = "addVersion" ->
           Return(c, <<>>, <<"failed to add secret version: ">> \o c.lastErr)

\* The code that follows each loop when the loop ends, by break or by
\* running out of attempts.
AfterLoop(c) ==
    CASE c.loop = "projectID" ->
           IF c.pid = <<>>
           THEN Return(c, <<>>, <<"failed to get project ID: ">> \o c.lastErr)
           ELSE IF c.op = "Fetch"
           THEN FetchFromProjectEntry(c, c.pid, c.name)
           ELSE StoreInProjectEntry(c, c.pid, c.name, c.value)
      [] c.loop = "token" ->
           IF c.tok = <<>>
           THEN Return(c, <<>>, <<"failed to get access token: ">> \o c.lastErr)
           ELSE IF c.op \in {"Fetch", "FetchFromProject"}
           THEN StartLoop(c, "access")
           ELSE StartLoop(c, "create")
      [] c.loop = "access" ->
           Return(c, <<>>, <<"failed to access secret: ">> \o c.lastErr)
      [] c.loop = "create" -> AfterCreateLoop(c)
      [] c.loop = "addVersion" ->
           Return(c, <<>>, <<"failed to add secret version: ">> \o c.lastErr)

\* Variant of Continue: the attempt counter is one variable of the package,
\* which every call in progress advances.
ContinueShared(c) ==
    LET total == calls[1].attempt + calls[2].attempt
    IN IF total + 1 < maxRetries
       THEN [c EXCEPT !.attempt = total + 1, !.pc = "wait",
                      !.waits[c.loop] = @ + 1]
       ELSE AfterLoop(c)

\* Variant of Continue: the loop makes one attempt more.
ContinueFourAttempts(c) ==
    IF c.attempt + 1 <= maxRetries
    THEN [c EXCEPT !.attempt = @ + 1, !.pc = "wait",
                   !.waits[c.loop] = @ + 1]
    ELSE AfterLoop(c)

\* Variant of Continue: the loop makes one attempt fewer.
ContinueTwoAttempts(c) ==
    IF c.attempt + 1 < maxRetries - 1
    THEN [c EXCEPT !.attempt = @ + 1, !.pc = "wait",
                   !.waits[c.loop] = @ + 1]
    ELSE AfterLoop(c)

\* "continue", or falling off the end of the loop body: the next iteration
\* has attempt > 0 and starts with the wait; after the last iteration the
\* loop ends.
Continue(c) ==
    IF c.attempt + 1 < maxRetries
    THEN [c EXCEPT !.attempt = @ + 1, !.pc = "wait",
                   !.waits[c.loop] = @ + 1]
    ELSE AfterLoop(c)

\* What an iteration of the loop does with the body of the response r
\* before it goes on: resp.Body.Close() alone on the paths that do not need
\* the body, the read through io.LimitReader and then Close on the others.
\* The read reaches the end of the body when the body is no longer than
\* maxBodySize and, in getAccessToken, when nothing follows the JSON value
\* the decoder stops at.
CloseBody(loop, r) ==
    LET read == IF r.readOK /\ ~Truncated(r) THEN "drained" ELSE "partial"
        decode == IF r.readOK /\ ~Truncated(r) /\ JsonValid(r) /\ r.trail = 0
                  THEN "drained" ELSE "partial"
    IN  IF r.net THEN "none"
        ELSE CASE loop = "projectID" -> IF r.status # StatusOK THEN "closed" ELSE read
               [] loop = "token" -> IF r.status # StatusOK THEN "closed" ELSE decode
               [] loop = "access" -> IF r.status # StatusOK THEN "closed" ELSE read
               [] loop = "create" ->
                    IF r.status = StatusOK \/ r.status = StatusCreated
                    THEN "closed" ELSE read
               [] loop = "addVersion" -> IF r.status = StatusOK THEN "closed" ELSE read

\* The error httpClient.Do returns (a *url.Error around the cause).
DoErr(method, r) == <<method, " \"url\": ", r.cause>>

\* io.ReadAll(io.LimitReader(resp.Body, maxBodySize)) with the error dropped.
BestEffortBody(r) == IF r.readOK THEN ReadAll(r) ELSE <<>>

\* ------------------------------------------------------------------------
\* One iteration of each loop, from the return of httpClient.Do
\* ------------------------------------------------------------------------
\* Variant of getProjectID: the body is trimmed at its end only.
getProjectIDTrimRight(c, r) ==
    IF r.net THEN Continue([c EXCEPT !.lastErr = DoErr("Get", r)])
    ELSE IF r.status # StatusOK
    THEN Continue([c EXCEPT !.lastErr = <<"metadata server status ", Itoa(r.status)>>])
    ELSE IF ~r.readOK THEN Continue([c EXCEPT !.lastErr = <<"unexpected EOF">>])
    ELSE LET p == TrimRight(ReadAll(r))
         IN IF p # <<>>
            THEN AfterLoop([c EXCEPT !.pid = p])
            ELSE Continue([c EXCEPT !.pid = p, !.lastErr = <<"empty project ID">>])

getProjectID(c, r) ==
    IF r.net THEN Continue([c EXCEPT !.lastErr = DoErr("Get", r)])
    ELSE IF r.status # StatusOK
    THEN Continue([c EXCEPT !.lastErr = <<"metadata server status ", Itoa(r.status)>>])
    ELSE IF ~r.readOK THEN Continue([c EXCEPT !.lastErr = <<"unexpected EOF">>])
    ELSE LET p == TrimSpace(ReadAll(r))
         IN IF p # <<>>
            THEN AfterLoop([c EXCEPT !.pid = p])
            ELSE Continue([c EXCEPT !.pid = p, !.lastErr = <<"empty project ID">>])

\* Variant of getAccessToken: a 4xx status ends the lookup at once, as in the
\* loops of the Secret Manager API.
getAccessTokenNoRetry4xx(c, r) ==
    IF r.net THEN Continue([c EXCEPT !.lastErr = DoErr("Get", r)])
    ELSE IF r.status >= 400 /\ r.status < 500
    THEN Return(c, <<>>, <<"failed to get access token: status ", Itoa(r.status)>>)
    ELSE IF r.status # StatusOK
    THEN Continue([c EXCEPT !.lastErr = <<"metadata server status ", Itoa(r.status)>>])
    ELSE IF ~r.readOK THEN Continue([c EXCEPT !.lastErr = <<"unexpected EOF">>])
    ELSE IF ~JsonValid(r) THEN Continue([c EXCEPT !.lastErr = <<"invalid character">>])
    ELSE LET AccessToken == IF r.present THEN r.val ELSE <<>>
         IN IF AccessToken # <<>>
            THEN AfterLoop([c EXCEPT !.tok = AccessToken])
            ELSE Continue([c EXCEPT !.lastErr = <<"empty access token">>])

\* Variant of getAccessToken: the token of a 200 is taken as it is, empty
\* or not.
getAccessTokenAcceptEmpty(c, r) ==
    IF r.net THEN Continue([c EXCEPT !.lastErr = DoErr("Get", r)])
    ELSE IF r.status # StatusOK
    THEN Continue([c EXCEPT !.lastErr = <<"metadata server status ", Itoa(r.status)>>])
    ELSE IF ~r.readOK THEN Continue([c EXCEPT !.lastErr = <<"unexpected EOF">>])
    ELSE IF ~JsonValid(r) THEN Continue([c EXCEPT !.lastErr = <<"invalid character">>])
    ELSE LET AccessToken == IF r.present THEN r.val ELSE <<>>
         IN AfterLoop([c EXCEPT !.tok = AccessToken])

getAccessToken(c, r) ==
    IF r.net THEN Continue([c EXCEPT !.lastErr = DoErr("Get", r)])
    ELSE IF r.status # StatusOK
    THEN Continue([c EXCEPT !.lastErr = <<"metadata server status ", Itoa(r.status)>>])
    ELSE IF ~r.readOK THEN Continue([c EXCEPT !.lastErr = <<"unexpected EOF">>])
    ELSE IF ~JsonValid(r) THEN Continue([c EXCEPT !.lastErr = <<"invalid character">>])
    ELSE LET AccessToken == IF r.present THEN r.val ELSE <<>>
         IN IF AccessToken # <<>>
            THEN AfterLoop([c EXCEPT !.tok = AccessToken])
            ELSE Continue([c EXCEPT !.lastErr = <<"empty access token">>])

\* Variant of FetchFromProjectLoop: empty payload data is a failed attempt,
\* as an empty token is in getAccessToken.
FetchFromProjectLoopRejectEmpty(c, r) ==
    IF r.net THEN Continue([c EXCEPT !.lastErr = DoErr("Get", r)])
    ELSE IF r.status >= 400 /\ r.status < 500
    THEN Return(c, <<>>, <<"failed to access secret: status ", Itoa(r.status)>>)
    ELSE IF r.status # StatusOK
    THEN Continue([c EXCEPT !.lastErr = <<"status ", Itoa(r.status)>>])
    ELSE IF ~r.readOK THEN Continue([c EXCEPT !.lastErr = <<"unexpected EOF">>])
    ELSE IF ~JsonValid(r) THEN Continue([c EXCEPT !.lastErr = <<"invalid character">>])
    ELSE LET Data == IF r.present THEN r.val ELSE <<>>
             decoded == DecodeString(Data)
         IN IF Data = <<>>
            THEN Continue([c EXCEPT !.lastErr = <<"empty secret data">>])
            ELSE IF ~decoded.ok
            THEN Continue([c EXCEPT !.lastErr =
                               <<"failed to decode secret data: ", "illegal base64 data">>])
            ELSE Return(c, decoded.bytes, nil)

\* Variant of FetchFromProjectLoop: no test for 4xx, so that a client error
\* is retried like any other status that is not 200.
FetchFromProjectLoopRetry4xx(c, r) ==
    IF r.net THEN Continue([c EXCEPT !.lastErr = DoErr("Get", r)])
    ELSE IF r.status # StatusOK
    THEN Continue([c EXCEPT !.lastErr = <<"status ", Itoa(r.status)>>])
    ELSE IF ~r.readOK THEN Continue([c EXCEPT !.lastErr = <<"unexpected EOF">>])
    ELSE IF ~JsonValid(r) THEN Continue([c EXCEPT !.lastErr = <<"invalid character">>])
    ELSE LET Data == IF r.present THEN r.val ELSE <<>>
             decoded == DecodeString(Data)
         IN IF ~decoded.ok
            THEN Continue([c EXCEPT !.lastErr =
                               <<"failed to decode secret data: ", "illegal base64 data">>])
            ELSE Return(c, decoded.bytes, nil)

FetchFromProjectLoop(c, r) ==
    IF r.net THEN Continue([c EXCEPT !.lastErr = DoErr("Get", r)])
    ELSE IF r.status >= 400 /\ r.status < 500
    THEN Return(c, <<>>, <<"failed to access secret: status ", Itoa(r.status)>>)
    ELSE IF r.status # StatusOK
    THEN Continue([c EXCEPT !.lastErr = <<"status ", Itoa(r.status)>>])
    ELSE IF ~r.readOK THEN Continue([c EXCEPT !.lastErr = <<"unexpected EOF">>])
    ELSE IF ~JsonValid(r) THEN Continue([c EXCEPT !.lastErr = <<"invalid character">>])
    ELSE LET Data == IF r.present THEN r.val ELSE <<>>
             decoded == DecodeString(Data)
         IN IF ~decoded.ok
            THEN Continue([c EXCEPT !.lastErr =
                               <<"failed to decode secret data: ", "illegal base64 data">>])
            ELSE Return(c, decoded.bytes, nil)

\* Variant of StoreInProjectCreateLoop: a 409 does not replace an error the
\* loop remembers from an earlier attempt.
StoreInProjectCreateLoopKeepErr(c, r) ==
    IF r.net THEN Continue([c EXCEPT !.createErr = DoErr("Post", r)])
    ELSE IF r.status = StatusOK \/ r.status = StatusCreated
    THEN AfterLoop(c)
    ELSE LET body == BestEffortBody(r)
         IN IF r.status = StatusConflict
            THEN AfterLoop([c EXCEPT !.createErr =
                               IF @ = nil
                               THEN <<AlreadyExists, ": status ", Itoa(r.status)>>
                               ELSE @])
            ELSE IF r.status >= 400 /\ r.status < 500
            THEN Return(c, <<>>,
                        <<"failed to create secret: status ", Itoa(r.status), ": ">> \o body)
            ELSE Continue([c EXCEPT !.createErr =
                              <<"status ", Itoa(r.status), ": ">> \o body])

\* Variant of StoreInProjectCreateLoop: a 4xx other than 409 is remembered in
\* createErr and retried instead of returned.
StoreInProjectCreateLoopRetry4xx(c, r) ==
    IF r.net THEN Continue([c EXCEPT !.createErr = DoErr("Post", r)])
    ELSE IF r.status = StatusOK \/ r.status = StatusCreated
    THEN AfterLoop(c)
    ELSE LET body == BestEffortBody(r)
         IN IF r.status = StatusConflict
            THEN AfterLoop([c EXCEPT !.createErr =
                               <<AlreadyExists, ": status ", Itoa(r.status)>>])
            ELSE Continue([c EXCEPT !.createErr =
                              <<"status ", Itoa(r.status), ": ">> \o body])

StoreInProjectCreateLoop(c, r) ==
    IF r.net THEN Continue([c EXCEPT !.createErr = DoErr("Post", r)])
    ELSE IF r.status = StatusOK \/ r.status = StatusCreated
    THEN AfterLoop(c)
    ELSE LET body == BestEffortBody(r)
         IN IF r.status = StatusConflict
            THEN AfterLoop([c EXCEPT !.createErr =
                               <<AlreadyExists, ": status ", Itoa(r.status)>>])
            ELSE IF r.status >= 400 /\ r.status < 500
            THEN Return(c, <<>>,
                        <<"failed to create secret: status ", Itoa(r.status), ": ">> \o body)
            ELSE Continue([c EXCEPT !.createErr =
                              <<"status ", Itoa(r.status), ": ">> \o body])

\* Variant of StoreInProjectVersionLoop: the success status is 201, as for
\* a resource created, and a 200 is retried.
StoreInProjectVersionLoopWantsCreated(c, r) ==
    IF r.net THEN Continue([c EXCEPT !.lastErr = DoErr("Post", r)])
    ELSE IF r.status = StatusCreated
    THEN Return(c, <<>>, nil)
    ELSE LET body == BestEffortBody(r)
         IN IF r.status >= 400 /\ r.status < 500
            THEN Return(c, <<>>,
                        <<"failed to add secret version: status ", Itoa(r.status), ": ">>
                            \o body)
            ELSE Continue([c EXCEPT !.lastErr =
                              <<"status ", Itoa(r.status), ": ">> \o body])

\* Variant of StoreInProjectVersionLoop: every 2xx status is success.
StoreInProjectVersionLoopAny2xx(c, r) ==
    IF r.net THEN Continue([c EXCEPT !.lastErr = DoErr("Post", r)])
    ELSE IF r.status >= 200 /\ r.status < 300
    THEN Return(c, <<>>, nil)
    ELSE LET body == BestEffortBody(r)
         IN IF r.status >= 400 /\ r.status < 500
            THEN Return(c, <<>>,
                        <<"failed to add secret version: status ", Itoa(r.status), ": ">>
                            \o body)
            ELSE Continue([c EXCEPT !.lastErr =
                              <<"status ", Itoa(r.status), ": ">> \o body])

\* Variant of StoreInProjectVersionLoop: the loop keeps the first error it
\* meets instead of the latest.
StoreInProjectVersionLoopFirstErr(c, r) ==
    LET keep(err) == IF c.lastErr = nil THEN err ELSE c.lastErr
    IN  IF r.net THEN Continue([c EXCEPT !.lastErr = keep(DoErr("Post", r))])
        ELSE IF r.status = StatusOK
        THEN Return(c, <<>>, nil)
        ELSE LET body == BestEffortBody(r)
             IN IF r.status >= 400 /\ r.status < 500
                THEN Return(c, <<>>,
                            <<"failed to add secret version: status ", Itoa(r.status), ": ">>
                                \o body)
                ELSE Continue([c EXCEPT !.lastErr =
                                  keep(<<"status ", Itoa(r.status), ": ">> \o body)])

\* Variant of StoreInProjectVersionLoop: no test for 4xx, so that a client
\* error is remembered and retried.
StoreInProjectVersionLoopRetry4xx(c, r) ==
    IF r.net THEN Continue([c EXCEPT !.lastErr = DoErr("Post", r)])
    ELSE IF r.status = StatusOK
    THEN Return(c, <<>>, nil)
    ELSE LET body == BestEffortBody(r)
         IN Continue([c EXCEPT !.lastErr =
                         <<"status ", Itoa(r.status), ": ">> \o body])

\* Variant of StoreInProjectVersionLoop: the test for a client error has no
\* upper limit, so that a 5xx ends the call too.
StoreInProjectVersionLoopNoRetry5xx(c, r) ==
    IF r.net THEN Continue([c EXCEPT !.lastErr = DoErr("Post", r)])
    ELSE IF r.status = StatusOK
    THEN Return(c, <<>>, nil)
    ELSE LET body == BestEffortBody(r)
         IN IF r.status >= 400
            THEN Return(c, <<>>,
                        <<"failed to add secret version: status ", Itoa(r.status), ": ">>
                            \o body)
            ELSE Continue([c EXCEPT !.lastErr =
                              <<"status ", Itoa(r.status), ": ">> \o body])

StoreInProjectVersionLoop(c, r) ==
    IF r.net THEN Continue([c EXCEPT !.lastErr = DoErr("Post", r)])
    ELSE IF r.status = StatusOK
    THEN Return(c, <<>>, nil)
    ELSE LET body == BestEffortBody(r)
         IN IF r.status >= 400 /\ r.status < 500
            THEN Return(c, <<>>,
                        <<"failed to add secret version: status ", Itoa(r.status), ": ">>
                            \o body)
            ELSE Continue([c EXCEPT !.lastErr =
                              <<"status ", Itoa(r.status), ": ">> \o body])

\* ------------------------------------------------------------------------
\* Actions
\* ------------------------------------------------------------------------
\* A caller makes its calls one after the other, and goes on to the next
\* when the one before has returned nil; concurrent callers (goroutines)
\* call whenever they like.
Callable(p) ==
    /\ calls[p].pc = "ready"
    /\ server.kind = "concurrent"
         \/ \A q \in Procs : q < p => (calls[q].pc = "done" /\ calls[q].retErr = nil)

\* The servers and the network may answer anything.
Arbitrary == server.kind \in {"any", "any, no value", "any status"}

\* The answers a request of the loop can get from such servers.
Answers(loop) ==
    IF server.kind = "any status" THEN StatusResponses(loop) ELSE Responses(loop)

\* The service model follows the calls for its one secret.
InScope(pid, name) ==
    Arbitrary \/ (pid = MyProject /\ name = MySecret)

\* Concurrent callers store values that tell them apart; where the value
\* plays no part the callers store the empty value.
ValueInScope(p, value) ==
    /\ server.kind = "concurrent" => Len(value) = p
    /\ server.kind \in {"any, no value", "any status"} => value = <<>>

\* Fetch(ctx, name)
Fetch(p, name) ==
    /\ Callable(p)
    /\ InScope(MyProject, name)
    /\ UNCHANGED server
    /\ LET c == [calls[p] EXCEPT !.op = "Fetch", !.name = name]
       IN calls' = [calls EXCEPT ![p] =
              IF ~secretNameRegex(name)
              THEN Return(c, <<>>, <<"invalid secret name format">>)
              ELSE StartLoop(c, "projectID")]

\* FetchFromProject(ctx, pid, name)
FetchFromProject(p, pid, name) ==
    /\ Callable(p)
    /\ InScope(pid, name)
    /\ UNCHANGED server
    /\ LET c == [calls[p] EXCEPT !.op = "FetchFromProject", !.pid = pid, !.name = name]
       IN calls' = [calls EXCEPT ![p] = FetchFromProjectEntry(c, pid, name)]

\* Store(ctx, name, value)
Store(p, name, value) ==
    /\ Callable(p)
    /\ InScope(MyProject, name)
    /\ ValueInScope(p, value)
    /\ UNCHANGED server
    /\ LET c == [calls[p] EXCEPT !.op = "Store", !.name = name, !.value = value]
       IN calls' = [calls EXCEPT ![p] =
              IF ~secretNameRegex(name)
              THEN Return(c, <<>>, <<"invalid secret name format">>)
              ELSE StartLoop(c, "projectID")]

\* StoreInProject(ctx, pid, name, value)
StoreInProject(p, pid, name, value) ==
    /\ Callable(p)
    /\ InScope(pid, name)
    /\ ValueInScope(p, value)
    /\ UNCHANGED server
    /\ LET c == [calls[p] EXCEPT !.op = "StoreInProject", !.pid = pid,
                                 !.name = name, !.value = value]
       IN calls' = [calls EXCEPT ![p] = StoreInProjectEntry(c, pid, name, value)]

\* The caller cancels the context, or its deadline passes.
Cancel(p) ==
    /\ calls[p].pc \in {"ready", "send", "wait", "inflight"}
    /\ ~calls[p].ctxDone
    /\ Arbitrary \/ server.faults < MaxFaults
    /\ calls' = [calls EXCEPT ![p].ctxDone = TRUE]
    /\ server' = IF Arbitrary THEN server
                 ELSE [server EXCEPT !.faults = @ + 1]

\* Variant of WaitElapsed: the wait is a plain sleep, which the context
\* cannot interrupt.
WaitElapsedSleep(p) ==
    /\ calls[p].pc = "wait"
    /\ calls' = [calls EXCEPT ![p].pc = "send"]
    /\ UNCHANGED server

\* select: case <-time.After(retryDelay).  A goroutine blocked in the select
\* is woken by whichever channel becomes ready first, and the timer cannot
\* be ready when the select is entered, so the timer case is taken only
\* while the context is not done.
WaitElapsed(p) ==
    /\ calls[p].pc = "wait"
    /\ ~calls[p].ctxDone
    /\ calls' = [calls EXCEPT ![p].pc = "send"]
    /\ UNCHANGED server

\* select: case <-ctx.Done(): return ctx.Err()
WaitCancelled(p) ==
    /\ calls[p].pc = "wait"
    /\ calls[p].ctxDone
    /\ calls' = [calls EXCEPT ![p] = Return(calls[p], <<>>, ctxErr)]
    /\ UNCHANGED server

\* Variant of encoded: the value is converted rune by rune, which turns
\* every byte that is not ASCII into the replacement character.
encodedRunes(c) ==
    EncodeToString([i \in DOMAIN c.value |-> IF c.value[i] < 128 THEN c.value[i] ELSE 253])

\* encoded := base64.StdEncoding.EncodeToString([]byte(value)), the
\* payload.data of the add-version request
encoded(c) == EncodeToString(c.value)

\* createData: json.Marshal of the replication policy, the body of every
\* create request
createData == <<"{\"replication\":{\"automatic\":{}}}">>

\* versionData: json.Marshal of the payload, the body of the add-version
\* requests
versionData(c) == <<"{\"payload\":{\"data\":\"">> \o encoded(c) \o <<"\"}}">>

\* Variant of NewRequest: the reader of the body is made once, before the
\* loop, so that a retry finds it at its end and sends an empty body.
NewRequestReaderReused(c) ==
    LET rest(d) == IF c.attempt > 0 THEN <<>> ELSE d IN
    CASE c.loop = "projectID" ->
           [NoReq EXCEPT !.method = "GET", !.base = metadataURL,
                         !.path = "/project/project-id", !.flavor = "Google"]
      [] c.loop = "token" ->
           [NoReq EXCEPT !.method = "GET", !.base = metadataURL,
                         !.path = "/instance/service-accounts/default/token",
                         !.flavor = "Google"]
      [] c.loop = "access" ->
           [NoReq EXCEPT !.method = "GET", !.base = apiURL,
                         !.project = c.pid, !.secret = c.name,
                         !.path = "/versions/latest:access",
                         !.auth = <<"Bearer ">> \o c.tok]
      [] c.loop = "create" ->
           [NoReq EXCEPT !.method = "POST", !.base = apiURL,
                         !.project = c.pid, !.secret = c.name,
                         !.path = "/secrets?secretId=",
                         !.auth = <<"Bearer ">> \o c.tok,
                         !.ctype = "application/json",
                         !.body = rest(createData)]
      [] c.loop = "addVersion" ->
           [NoReq EXCEPT !.method = "POST", !.base = apiURL,
                         !.project = c.pid, !.secret = c.name,
                         !.path = ":addVersion",
                         !.auth = <<"Bearer ">> \o c.tok,
                         !.ctype = "application/json",
                         !.data = rest(encoded(c)),
                         !.body = rest(versionData(c))]

\* The request an iteration of call c's loop builds: method, URL (the base,
\* the project and the secret it names, and the rest of the path), headers
\* and body (for add-version also the payload data the body carries).
NewRequest(c) ==
    CASE c.loop = "projectID" ->
           [NoReq EXCEPT !.method = "GET", !.base = metadataURL,
                         !.path = "/project/project-id", !.flavor = "Google"]
      [] c.loop = "token" ->
           [NoReq EXCEPT !.method = "GET", !.base = metadataURL,
                         !.path = "/instance/service-accounts/default/token",
                         !.flavor = "Google"]
      [] c.loop = "access" ->
           [NoReq EXCEPT !.method = "GET", !.base = apiURL,
                         !.project = c.pid, !.secret = c.name,
                         !.path = "/versions/latest:access",
                         !.auth = <<"Bearer ">> \o c.tok]
      [] c.loop = "create" ->
           [NoReq EXCEPT !.method = "POST", !.base = apiURL,
                         !.project = c.pid, !.secret = c.name,
                         !.path = "/secrets?secretId=",
                         !.auth = <<"Bearer ">> \o c.tok,
                         !.ctype = "application/json",
                         !.body = createData]
      [] c.loop = "addVersion" ->
           [NoReq EXCEPT !.method = "POST", !.base = apiURL,
                         !.project = c.pid, !.secret = c.name,
                         !.path = ":addVersion",
                         !.auth = <<"Bearer ">> \o c.tok,
                         !.ctype = "application/json",
                         !.data = encoded(c),
                         !.body = versionData(c)]

\* http.NewRequestWithContext and the call of httpClient.Do.  With a context
\* that is already done the transport gives up before it writes anything.
SendRequest(p) ==
    /\ calls[p].pc = "send"
    /\ calls' = [calls EXCEPT ![p] =
           IF calls[p].ctxDone
           THEN [@ EXCEPT !.pc = "inflight", !.onWire = FALSE,
                          !.req = NewRequest(calls[p])]
           ELSE [@ EXCEPT !.pc = "inflight", !.onWire = TRUE,
                          !.req = NewRequest(calls[p]),
                          !.reqs[calls[p].loop] = @ + 1]]
    /\ UNCHANGED server

\* The service after it has carried out the request call p has on the
\* network: create makes the secret, add-version appends a version to an
\* existing secret, the other requests change nothing.
Applied(srv, p) ==
    LET c == calls[p] IN
    CASE c.loop = "create" -> [srv EXCEPT !.exists = TRUE]
      [] c.loop = "addVersion" /\ srv.exists ->
           [srv EXCEPT !.versions =
                Append(@, [data |-> encoded(c), value |-> c.value, by |-> p])]
      [] OTHER -> srv

\* The answer of the service to that request.
Answer(srv, p) ==
    LET c == calls[p] IN
    CASE c.loop = "projectID" -> TextResp(MyProject \o <<"\n">>, TRUE, MyProject)
      [] c.loop = "token" -> JsonResp(TRUE, TokenOf(p), TRUE, TokenOf(p))
      [] c.loop = "access" ->
           IF srv.versions = <<>> THEN StatusResp(404, <<>>)
           ELSE LET v == srv.versions[Len(srv.versions)]
                IN JsonResp(TRUE, v.data, TRUE, v.value)
      [] c.loop = "create" ->
           IF srv.exists THEN StatusResp(StatusConflict, <<"exists">>)
           ELSE StatusResp(StatusOK, <<>>)
      [] c.loop = "addVersion" ->
           IF srv.exists THEN StatusResp(StatusOK, <<>>)
           ELSE StatusResp(404, <<>>)

\* What reaches the client when an answer of Secret Manager is lost or
\* replaced on the way.  The metadata server is not disturbed.
Faults(loop) ==
    IF loop = "addVersion"
    THEN {NetErr, StatusResp(503, <<"unavailable">>), StatusResp(403, <<"denied">>)}
    ELSE IF loop \in {"projectID", "token"} THEN {}
    ELSE {NetErr}

\* A request whose answer is lost, or is a 5xx, may have been carried out;
\* one that Secret Manager refuses has not been.
Effects(srv, p, f) ==
    IF f.net \/ f.status >= 500 THEN {srv, Applied(srv, p)} ELSE {srv}

\* Variant of DoResults: httpClient.Do does not watch the context, so that
\* a call made with a context already done gets nothing back.
DoResultsIgnoreCtx(p) ==
    LET c == calls[p]
    IN  IF ~c.onWire THEN {}
        ELSE IF Arbitrary
        THEN {[r |-> r, srv |-> server] : r \in Answers(c.loop)}
        ELSE {[r |-> Answer(server, p), srv |-> Applied(server, p)]}

\* What httpClient.Do can return to call p, and the server it leaves: an
\* answer if the request went out, the context's error if the context is
\* done.  A request whose answer does not arrive may have been carried out
\* or not.
DoResults(p) ==
    LET c == calls[p]
        either == {server, Applied(server, p)}
    IN  (IF ~c.onWire THEN {}
         ELSE IF Arbitrary
         THEN {[r |-> r, srv |-> server] : r \in Answers(c.loop)}
         ELSE {[r |-> Answer(server, p), srv |-> Applied(server, p)]}
              \cup (IF server.faults < MaxFaults
                    THEN UNION {{[r |-> f, srv |-> [s EXCEPT !.faults = @ + 1]] :
                                    s \in Effects(server, p, f)} :
                                f \in Faults(c.loop)}
                    ELSE {}))
        \cup (IF ~c.ctxDone THEN {}
              ELSE IF c.onWire /\ ~Arbitrary
              THEN {[r |-> CtxNetErr, srv |-> s] : s \in either}
              ELSE {[r |-> CtxNetErr, srv |-> server]})

Observe(c, r) ==
    [c EXCEPT !.answers[c.loop] =
                  [n |-> @.n + 1, last |-> Tag(c.loop, r),
                   transientBefore |->
                       @.transientBefore /\ (@.n = 0 \/ @.last = "transient")],
              !.lastResp = r, !.onWire = FALSE,
              !.body = CloseBody(c.loop, r)]

\* httpClient.Do returns in getProjectID and the iteration runs to its end.
RecvProjectID(p) ==
    /\ calls[p].pc = "inflight"
    /\ calls[p].loop = "projectID"
    /\ \E o \in DoResults(p) :
           /\ calls' = [calls EXCEPT ![p] = getProjectID(Observe(calls[p], o.r), o.r)]
           /\ server' = o.srv

\* httpClient.Do returns in getAccessToken.
RecvAccessToken(p) ==
    /\ calls[p].pc = "inflight"
    /\ calls[p].loop = "token"
    /\ \E o \in DoResults(p) :
           /\ calls' = [calls EXCEPT ![p] = getAccessToken(Observe(calls[p], o.r), o.r)]
           /\ server' = o.srv

\* httpClient.Do returns in the secret-access loop of FetchFromProject.
RecvAccess(p) ==
    /\ calls[p].pc = "inflight"
    /\ calls[p].loop = "access"
    /\ \E o \in DoResults(p) :
           /\ calls' = [calls EXCEPT ![p] = FetchFromProjectLoop(Observe(calls[p], o.r), o.r)]
           /\ server' = o.srv

\* httpClient.Do returns in the create loop of StoreInProject.
RecvCreate(p) ==
    /\ calls[p].pc = "inflight"
    /\ calls[p].loop = "create"
    /\ \E o \in DoResults(p) :
           /\ calls' = [calls EXCEPT ![p] = StoreInProjectCreateLoop(Observe(calls[p], o.r), o.r)]
           /\ server' = o.srv

\* httpClient.Do returns in the add-version loop of StoreInProject.
RecvAddVersion(p) ==
    /\ calls[p].pc = "inflight"
    /\ calls[p].loop = "addVersion"
    /\ \E o \in DoResults(p) :
           /\ calls' = [calls EXCEPT ![p] = StoreInProjectVersionLoop(Observe(calls[p], o.r), o.r)]
           /\ server' = o.srv

Next ==
    \E p \in Procs :
        \/ \E name \in SecretNames : Fetch(p, name)
        \/ \E pid \in ProjectIDs, name \in SecretNames : FetchFromProject(p, pid, name)
        \/ \E name \in SecretNames, value \in Values : Store(p, name, value)
        \/ \E pid \in ProjectIDs, name \in SecretNames, value \in Values :
               StoreInProject(p, pid, name, value)
        \/ Cancel(p)
        \/ WaitElapsed(p)
        \/ WaitCancelled(p)
        \/ SendRequest(p)
        \/ RecvProjectID(p)
        \/ RecvAccessToken(p)
        \/ RecvAccess(p)
        \/ RecvCreate(p)
        \/ RecvAddVersion(p)

Spec == Init /\ [][Next]_vars

\* The steps call p takes by itself once it has been made: the end of a
\* retry wait, and the start and the return of httpClient.Do.
Proceed(p) ==
    \/ WaitElapsed(p)
    \/ WaitCancelled(p)
    \/ SendRequest(p)
    \/ RecvProjectID(p)
    \/ RecvAccessToken(p)
    \/ RecvAccess(p)
    \/ RecvCreate(p)
    \/ RecvAddVersion(p)

\* One call with the code's scheduling: a goroutine that can run does run,
\* every httpClient.Do returns (httpClient.Timeout bounds it), and every
\* timer fires.  Nothing obliges the caller to call or to cancel.
SpecFair == InitFair /\ [][Next]_vars /\ \A p \in Procs : WF_vars(Proceed(p))

SpecService == InitService /\ [][Next]_vars

SpecStatus == InitStatus /\ [][Next]_vars

SpecConcurrent == InitConcurrent /\ [][Next]_vars

\* ------------------------------------------------------------------------
\* Type correctness
\* ------------------------------------------------------------------------
TypeOK ==
    \A p \in Procs :
        /\ calls[p].op \in {"none", "Fetch", "FetchFromProject", "Store", "StoreInProject"}
        /\ calls[p].pc \in {"ready", "idle", "send", "wait", "inflight", "done"}
        /\ calls[p].loop \in Loops \cup {"none"}
        /\ calls[p].attempt \in 0..(maxRetries - 1)
        /\ server.kind \in {"any", "any, no value", "any status", "service", "concurrent"}
        /\ server.exists \in BOOLEAN
        /\ server.faults \in 0..MaxFaults
        /\ Len(server.versions) <= 2 * maxRetries

\* ------------------------------------------------------------------------
\* Vocabulary of the properties
\* ------------------------------------------------------------------------
Running(c, l) == c.loop = l /\ c.pc \in {"wait", "send", "inflight"}

\* Loop l of call c has received k >= 0 transient failures and nothing else.
OnlyTransient(c, l) ==
    /\ c.answers[l].n >= 1
    /\ c.answers[l].last = "transient"
    /\ c.answers[l].transientBefore

\* Loop l of call c has received transient failures, then its success.
TransientThenOk(c, l) ==
    /\ c.answers[l].n >= 1
    /\ c.answers[l].last = "ok"
    /\ c.answers[l].transientBefore

NoRequests(c) == \A l \in Loops : c.reqs[l] = 0

\* The two patterns, as the specification states them.
ProjectIDChars == Lower \cup Digit \cup {"-"}
IsProjectID(s) ==
    /\ Len(s) \in 6..30
    /\ Head(s) \in Lower
    /\ s[Len(s)] \in Lower \cup Digit
    /\ {s[i] : i \in 2..(Len(s) - 1)} \subseteq ProjectIDChars
IsSecretName(s) ==
    /\ Len(s) \in 1..255
    /\ {s[i] : i \in 1..Len(s)} \subseteq Lower \cup Upper \cup Digit \cup {"_", "-"}

\* ------------------------------------------------------------------------
\* Properties
\* ------------------------------------------------------------------------

\* C1: In Fetch and FetchFromProject, while the secret-access loop has seen
\* only transient failures (5xx or transport error), fewer than three of them,
\* and the context is not done, the loop goes on; and when the answers were k
\* transient failures followed by a 200 with a well-formed payload, the call
\* has returned the base64-decoded payload with a nil error after exactly
\* k+1 secret-access requests.
C1_FetchSucceedsAfterTransient ==
    \A p \in Procs :
        LET c == calls[p] IN
        /\ (OnlyTransient(c, "access") /\ c.answers["access"].n < maxRetries /\ ~c.ctxDone)
               => Running(c, "access")
        /\ (TransientThenOk(c, "access") /\ ~c.ctxDone)
               => /\ c.pc = "done"
                  /\ c.retErr = nil
                  /\ c.retVal = c.lastResp.plain
                  /\ c.reqs["access"] = c.answers["access"].n

C1_Witness ==
    \E p \in Procs :
        LET c == calls[p] IN
        /\ c.op = "FetchFromProject"
        /\ TransientThenOk(c, "access")
        /\ c.answers["access"].n = maxRetries
        /\ ~c.ctxDone
        /\ c.pc = "done"
        /\ c.retErr = nil
        /\ Len(c.retVal) = 2

\* C2: In StoreInProject, when the create loop received k transient failures
\* (1 <= k < 3) and then a 200 or 201, the create phase counts as successful:
\* the add-version phase is started, and the call returns nil when
\* add-version returns 200.
C2_CreateSucceedsAfterTransient ==
    \A p \in Procs :
        LET c == calls[p] IN
        (TransientThenOk(c, "create") /\ c.answers["create"].n >= 2 /\ ~c.ctxDone)
            => /\ c.loop = "addVersion"
               /\ (c.pc = "done" /\ c.answers["addVersion"].last = "ok") => c.retErr = nil

\* C3: In StoreInProject, while the add-version loop has seen only transient
\* failures, fewer than three of them, and the context is not done, the loop
\* goes on; and when the answers were k transient failures followed by a 200,
\* the call has returned nil after exactly k+1 add-version requests.
C3_AddVersionSucceedsAfterTransient ==
    \A p \in Procs :
        LET c == calls[p] IN
        /\ (OnlyTransient(c, "addVersion") /\ c.answers["addVersion"].n < maxRetries
                /\ ~c.ctxDone)
               => Running(c, "addVersion")
        /\ (TransientThenOk(c, "addVersion") /\ ~c.ctxDone)
               => /\ c.pc = "done"
                  /\ c.retErr = nil
                  /\ c.reqs["addVersion"] = c.answers["addVersion"].n

C3_Witness ==
    \E p \in Procs :
        LET c == calls[p] IN
        /\ c.op = "StoreInProject"
        /\ TransientThenOk(c, "addVersion")
        /\ c.answers["addVersion"].n = maxRetries
        /\ c.reqs["addVersion"] = maxRetries
        /\ ~c.ctxDone
        /\ c.pc = "done"
        /\ c.retErr = nil

\* C4: Every retry loop issues at most 3 requests per invocation; when all of
\* its attempts failed transiently (a retryable failure in every loop) and the
\* context is not done, exactly 3 requests were issued and the operation has
\* returned a non-nil error.
C4_AtMostThreeRequests ==
    \A p \in Procs : \A l \in Loops :
        LET c == calls[p] IN
        /\ c.reqs[l] <= maxRetries
        /\ (OnlyTransient(c, l) /\ ~c.ctxDone /\ ~Running(c, l))
               => /\ c.reqs[l] = maxRetries
                  /\ c.pc = "done"
                  /\ c.retErr # nil

C6_ClientErrorTerminal ==
    \A p \in Procs : \A l \in {"access", "create", "addVersion"} :
        LET c == calls[p]
            n == c.answers[l].n
        IN (n >= 1 /\ (c.answers[l].last = "4xx"
                         \/ (c.answers[l].last = "409" /\ l # "create")))
            => /\ c.pc = "done"
               /\ c.loop = l
               /\ c.retErr # nil
               /\ c.retErr # ctxErr
               /\ c.retErr[2] = Itoa(c.lastResp.status)
               /\ c.reqs[l] = n
               /\ c.waits[l] = n - 1
               /\ l # "addVersion" => c.reqs["addVersion"] = 0

C6_Witness ==
    \E p \in Procs :
        LET c == calls[p] IN
        /\ c.answers["addVersion"].n = 2
        /\ c.answers["addVersion"].last = "409"
        /\ c.pc = "done"
        /\ c.retErr # nil

IsCreateErr(err) ==
    err # nil /\ Head(err) \in {"failed to create secret: ", "failed to create secret: status "}

\* C7: When a create request returns 409 the create loop stops (no further
\* create request), the add-version phase is started, the call never returns
\* an error of the create phase, and it returns nil if add-version then
\* returns 200.
C7_ConflictStartsAddVersion ==
    \A p \in Procs :
        LET c == calls[p] IN
        (c.answers["create"].n >= 1 /\ c.answers["create"].last = "409")
            => /\ c.loop = "addVersion"
               /\ c.reqs["create"] = c.answers["create"].n
               /\ ~IsCreateErr(c.retErr)
               /\ (c.pc = "done" /\ c.answers["addVersion"].last = "ok") => c.retErr = nil

C7_Witness ==
    \E p \in Procs :
        LET c == calls[p] IN
        /\ c.answers["create"].n = 1
        /\ c.answers["create"].last = "409"
        /\ c.answers["addVersion"].last = "ok"
        /\ c.pc = "done"
        /\ c.retErr = nil

\* C8: If a create request returns a 4xx status other than 409, StoreInProject
\* returns an error of the create phase and never issues an add-version
\* request.
C8_CreateClientErrorAborts ==
    \A p \in Procs :
        LET c == calls[p] IN
        (c.answers["create"].n >= 1 /\ c.answers["create"].last = "4xx")
            => /\ c.pc = "done"
               /\ IsCreateErr(c.retErr)
               /\ c.reqs["addVersion"] = 0
               /\ c.answers["addVersion"].n = 0

C8_Witness ==
    \E p \in Procs :
        LET c == calls[p] IN
        /\ c.op = "StoreInProject"
        /\ c.answers["create"].last = "4xx"
        /\ c.lastResp.val = <<AlreadyExists>>
        /\ c.pc = "done"
        /\ c.reqs["addVersion"] = 0

\* C9: If all 3 create attempts end in a transient failure (5xx with any body,
\* transport error), StoreInProject returns an error and issues no add-version
\* request; the add-version phase starts only after a create request returned
\* 200, 201 or 409.
C9_CreateExhaustedAborts ==
    \A p \in Procs :
        LET c == calls[p] IN
        /\ (OnlyTransient(c, "create") /\ c.answers["create"].n = maxRetries)
               => /\ c.pc = "done"
                  /\ c.retErr # nil
                  /\ c.reqs["addVersion"] = 0
        /\ c.loop = "addVersion" => c.answers["create"].last \in {"ok", "409"}

\* C10: A call with a secret name that does not match the secret-name pattern,
\* or (FetchFromProject, StoreInProject) a project ID that does not match the
\* project-ID pattern, has returned an error without any network request.
C10_InvalidInputNoRequest ==
    \A p \in Procs :
        LET c == calls[p] IN
        (c.op # "none"
           /\ \/ ~IsSecretName(c.name)
              \/ (c.op \in {"FetchFromProject", "StoreInProject"} /\ ~IsProjectID(c.pid)))
            => /\ c.pc = "done"
               /\ c.retErr # nil
               /\ NoRequests(c)
               /\ c.loop = "none"

C10_Witness ==
    \E p \in Procs :
        LET c == calls[p] IN
        /\ c.op = "Store"
        /\ Len(c.name) = SecretNameMax + 1
        /\ c.pc = "done"
        /\ c.retErr = <<"invalid secret name format">>
        /\ NoRequests(c)

\* C11: When the context is done while a retry loop is in its wait between
\* attempts, the next step of the call is its return, with the context's
\* error, and without a further request or wait.
C11_CancelDuringWait ==
    [][\A p \in Procs :
          (calls[p].pc = "wait" /\ calls[p].ctxDone /\ calls'[p] # calls[p])
              => /\ calls'[p].pc = "done"
                 /\ calls'[p].retErr = ctxErr
                 /\ calls'[p].reqs = calls[p].reqs
                 /\ calls'[p].waits = calls[p].waits]_vars

C11_Witness ==
    \E p \in Procs :
        LET c == calls[p] IN
        /\ c.pc = "done"
        /\ c.ctxDone
        /\ c.retErr = ctxErr
        /\ c.loop = "addVersion"
        /\ c.waits["addVersion"] = 2
        /\ c.reqs["addVersion"] = 2

\* C12: When the context is done before the call returns and the last
\* httpClient.Do of the call was ended by it, the error returned is the
\* context's own error, not a remembered error under the loop's
\* "failed to ..." prefix.
C12_CancelledReturnsCtxErr ==
    \A p \in Procs :
        LET c == calls[p] IN
        (c.pc = "done" /\ c.ctxDone /\ c.lastResp = CtxNetErr)
            => c.retErr = ctxErr

\* The requests of call c to the Secret Manager API.
APIRequests(c) == c.reqs["access"] + c.reqs["create"] + c.reqs["addVersion"]

\* Call c is between the arrival of an answer of loop l and the arrival of
\* the next answer: lastResp is that answer.
LoopOrder(l) ==
    CASE l = "projectID" -> 1
      [] l = "token" -> 2
      [] l \in {"access", "create"} -> 3
      [] l = "addVersion" -> 4

LastAnswerOf(c, l) ==
    /\ c.answers[l].n >= 1
    /\ \A m \in Loops : LoopOrder(m) > LoopOrder(l) => c.answers[m].n = 0

\* What follows a failed attempt of loop l whose error is err: while
\* attempts remain the loop goes on with the next attempt (unless the
\* context ends the wait), and after the last attempt the call has returned
\* err under the loop's prefix.
RetriedThenFails(c, l, prefix, err) ==
    IF c.answers[l].n < maxRetries
    THEN \/ Running(c, l) /\ c.attempt = c.answers[l].n
         \/ c.pc = "done" /\ c.retErr = ctxErr
    ELSE c.pc = "done" /\ c.retErr = <<prefix>> \o err

\* C16: The requests of a call come in order and one at a time: none to the
\* token endpoint before the project-ID lookup (when the call has one) got
\* its 200, none to the Secret Manager API before the token lookup got its
\* token, none to add-version before the create loop has ended; and a request
\* is only sent when the call has no request in flight.
C16_Sequenced ==
    /\ [](\A p \in Procs :
            LET c == calls[p] IN
            /\ (c.op \in {"Fetch", "Store"} /\ c.reqs["token"] + APIRequests(c) > 0)
                   => c.answers["projectID"].last \in {"ok", "big"}
            /\ APIRequests(c) > 0 => c.answers["token"].last = "ok"
            /\ c.reqs["addVersion"] > 0
                   => /\ c.loop = "addVersion"
                      /\ \/ c.answers["create"].last \in {"ok", "409"}
                         \/ c.answers["create"].n = maxRetries)
    /\ [][\A p \in Procs :
            calls'[p].reqs # calls[p].reqs
                => /\ calls[p].pc = "send"
                   /\ calls'[p].pc = "inflight"
                   /\ \E l \in Loops :
                        calls'[p].reqs = [calls[p].reqs EXCEPT ![l] = @ + 1]]_vars

C16_Witness ==
    \E p \in Procs :
        LET c == calls[p] IN
        /\ c.op = "Store"
        /\ c.pc = "inflight"
        /\ c.onWire
        /\ c.loop = "addVersion"
        /\ c.reqs["addVersion"] = 2
        /\ c.reqs["create"] = 3
        /\ c.answers["projectID"].last = "ok"
        /\ c.answers["token"].last = "ok"

\* C17: A 200 from the token endpoint whose access_token is empty or absent
\* is a failed attempt: no token is kept, no request goes to the Secret
\* Manager API, the lookup goes on while attempts remain, and after the
\* third attempt the call returns "failed to get access token: empty access
\* token".
EmptyToken(r) ==
    /\ ~r.net /\ r.status = StatusOK /\ r.readOK /\ r.json /\ ~Truncated(r)
    /\ ~r.present \/ r.val = <<>>

C17_EmptyTokenRetried ==
    \A p \in Procs :
        LET c == calls[p] IN
        (c.loop = "token" /\ c.answers["token"].n >= 1 /\ EmptyToken(c.lastResp))
            => /\ c.tok = <<>>
               /\ APIRequests(c) = 0
               /\ RetriedThenFails(c, "token", "failed to get access token: ",
                                   <<"empty access token">>)

C17_Witness ==
    \E p \in Procs :
        LET c == calls[p] IN
        /\ c.pc = "done"
        /\ c.loop = "token"
        /\ c.answers["token"].n = maxRetries
        /\ c.reqs["token"] = maxRetries
        /\ EmptyToken(c.lastResp)
        /\ ~c.lastResp.present
        /\ Head(c.retErr) = "failed to get access token: "

\* C18: A 200 from the project-ID endpoint gives the project ID the server
\* named, without the white space around it; a body of white space only is a
\* failed attempt, retried while attempts remain, and after the third
\* attempt the call returns "failed to get project ID: empty project ID"
\* without a request to the token endpoint.  Of a body longer than
\* maxBodySize the project ID is what its first maxBodySize bytes hold.
ProjectIDText(r) == ~r.net /\ r.status = StatusOK /\ r.readOK

ProjectIDRead(r) ==
    IF r.lead + Len(r.plain) <= maxBodySize THEN r.plain
    ELSE [i \in 1..(maxBodySize - r.lead) |-> r.plain[i]]

C18_ProjectIDTrimmed ==
    \A p \in Procs :
        LET c == calls[p] IN
        (LastAnswerOf(c, "projectID") /\ ProjectIDText(c.lastResp))
            => IF ProjectIDRead(c.lastResp) # <<>>
               THEN c.pid = ProjectIDRead(c.lastResp)
               ELSE /\ c.pid = <<>>
                    /\ c.reqs["token"] = 0
                    /\ RetriedThenFails(c, "projectID", "failed to get project ID: ",
                                        <<"empty project ID">>)

C18_Witness ==
    \E p \in Procs :
        LET c == calls[p] IN
        /\ c.pc = "done"
        /\ c.loop = "projectID"
        /\ c.answers["projectID"].n = maxRetries
        /\ ProjectIDText(c.lastResp)
        /\ c.waits["projectID"] = 2
        /\ c.lastResp.val = <<" ", "\n">>
        /\ c.retErr = <<"failed to get project ID: ", "empty project ID">>

\* C19: No call returns success after a loop of it took its result from a
\* response body cut at maxBodySize.
C19_NoSuccessFromTruncatedBody ==
    \A p \in Procs :
        LET c == calls[p] IN
        (c.pc = "done" /\ c.retErr = nil)
            => \A l \in Loops : c.answers[l].last # "big"

\* C20: In the secret-access loop a 200 whose body cannot be read to its
\* end, is not valid JSON, or carries payload data that is not base64 is a
\* failed attempt: the loop goes on while attempts remain, and after the
\* third attempt the call returns the failure under "failed to access
\* secret: ".
UnusableAccessBody(r) ==
    /\ ~r.net /\ r.status = StatusOK
    /\ \/ ~r.readOK
       \/ ~r.json
       \/ Truncated(r) /\ Kept(r) < r.len
       \/ r.present /\ ~r.wf

UnusableAccessErr(r) ==
    IF ~r.readOK THEN <<"unexpected EOF">>
    ELSE IF ~r.json \/ Truncated(r) THEN <<"invalid character">>
    ELSE <<"failed to decode secret data: ", "illegal base64 data">>

C20_UnusableBodyRetried ==
    \A p \in Procs :
        LET c == calls[p] IN
        (c.loop = "access" /\ c.answers["access"].n >= 1
                           /\ UnusableAccessBody(c.lastResp))
            => RetriedThenFails(c, "access", "failed to access secret: ",
                                UnusableAccessErr(c.lastResp))

C20_Witness ==
    \E p \in Procs :
        LET c == calls[p] IN
        /\ c.pc = "done"
        /\ c.loop = "access"
        /\ c.answers["access"].n = maxRetries
        /\ c.reqs["access"] = maxRetries
        /\ c.lastResp.val = <<"T", "Q", "=", "!">>
        /\ c.retErr = <<"failed to access secret: ",
                        "failed to decode secret data: ", "illegal base64 data">>

\* The store calls, and the versions call p has added to the secret.
StoreOps == {"Store", "StoreInProject"}
FetchOps == {"Fetch", "FetchFromProject"}
Succeeded(c) == c.pc = "done" /\ c.retErr = nil
Added(p) == Cardinality({i \in DOMAIN server.versions : server.versions[i].by = p})

\* C13: A store call that has returned nil has added exactly one version to
\* the secret, whatever answers were lost or failed on the way.
C13_ExactlyOneVersion ==
    \A p \in Procs :
        (calls[p].op \in StoreOps /\ Succeeded(calls[p])) => Added(p) = 1

\* C14: When a store call has returned nil and a fetch call made after it
\* (no other store in between) has returned nil, the fetch has returned the
\* value stored, whatever answers were lost or failed in either call.
C14_RoundTrip ==
    \A p, q \in Procs :
        (/\ p < q
         /\ calls[p].op \in StoreOps /\ Succeeded(calls[p])
         /\ calls[q].op \in FetchOps /\ Succeeded(calls[q]))
            => calls[q].retVal = calls[p].value

C14_Witness ==
    /\ calls[1].op = "Store" /\ Succeeded(calls[1])
    /\ calls[2].op = "Fetch" /\ Succeeded(calls[2])
    /\ calls[1].value = <<77, 166, 255>>
    /\ calls[2].retVal = <<77, 166, 255>>
    /\ Added(1) = 2
    /\ calls[2].waits["access"] = 1

\* C15: A store call made after a store call that returned nil does not
\* fail for the secret existing already; and when nothing disturbs the two
\* calls the second returns nil too, the secret has two versions, and the
\* latest holds the second call's value.
C15_SecondStore ==
    \A p, q \in Procs :
        (/\ p < q
         /\ calls[p].op \in StoreOps /\ Succeeded(calls[p])
         /\ calls[q].op \in StoreOps /\ calls[q].pc = "done")
            => /\ ~Contains(calls[q].retErr, AlreadyExists)
               /\ calls[q].answers["create"].last = "409"
                      => ~IsCreateErr(calls[q].retErr)
               /\ server.faults = 0
                      => /\ calls[q].retErr = nil
                         /\ Len(server.versions) = 2
                         /\ server.versions[2].by = q
                         /\ DecodeString(server.versions[2].data) =
                                [ok |-> TRUE, bytes |-> calls[q].value]

C15_Witness ==
    /\ calls[1].op = "StoreInProject" /\ Succeeded(calls[1])
    /\ calls[2].op = "StoreInProject" /\ Succeeded(calls[2])
    /\ calls[2].answers["create"].last = "409"
    /\ calls[1].value = <<77, 166, 255>>
    /\ calls[2].value = <<77>>
    /\ server.faults = 0
    /\ Len(server.versions) = 2

\* The create request of this call was answered 200 or 201.
CreatedSecret(c) == c.op \in StoreOps /\ c.answers["create"].last = "ok"

\* The add-version loop of this call failed: a terminal 4xx, or maxRetries
\* transient failures.
AddVersionFailed(c) ==
    \/ c.answers["addVersion"].last \in {"4xx", "409"}
    \/ c.answers["addVersion"].n = maxRetries /\ c.answers["addVersion"].last = "transient"

\* The add-version answers of this call that were lost or a 5xx: the
\* requests the server may have carried out unknown to the client.
Unacknowledged(c) ==
    c.answers["addVersion"].n
        - (IF c.answers["addVersion"].last \in {"4xx", "409"} THEN 1 ELSE 0)

\* C21 as claimed: when create succeeds and add-version then fails, the call
\* returns an error and the new secret stays on the server without any
\* version from this call.
C21_NoVersionAfterFailure ==
    \A p \in Procs :
        LET c == calls[p] IN
        (CreatedSecret(c) /\ AddVersionFailed(c))
            => /\ c.pc = "done"
               /\ c.retErr # nil
               /\ server.exists
               /\ Added(p) = 0

\* C21 as amended: Store is not transactional.  When create succeeds and
\* add-version then fails (terminal 4xx or exhausted attempts) the call has
\* returned an add-version error, nothing was sent after the failure, and the
\* new secret stays on the server.  It holds a version from this call only
\* for an add-version request the server carried out while its answer was
\* lost or a 5xx: none when the first add-version answer is the 4xx, never
\* more than one per such answer.
C21_NotTransactional ==
    \A p \in Procs :
        LET c == calls[p] IN
        (CreatedSecret(c) /\ AddVersionFailed(c))
            => /\ c.pc = "done"
               /\ c.loop = "addVersion"
               /\ c.retErr # nil
               /\ Head(c.retErr) \in {"failed to add secret version: ",
                                     "failed to add secret version: status "}
               /\ c.reqs["addVersion"] <= c.answers["addVersion"].n
               /\ c.req.path = ":addVersion"
               /\ server.exists
               /\ Added(p) <= Unacknowledged(c)

C21_Witness ==
    \E p \in Procs :
        LET c == calls[p] IN
        /\ CreatedSecret(c)
        /\ c.answers["addVersion"].n = 1
        /\ c.answers["addVersion"].last = "4xx"
        /\ c.pc = "done"
        /\ c.retErr # nil
        /\ server.exists
        /\ Added(p) = 0

\* The messages that wrap a loop's remembered error when its attempts are
\* used up.
ExhaustedPrefixes ==
    {"failed to get project ID: ", "failed to get access token: ",
     "failed to access secret: ", "failed to create secret: ",
     "failed to add secret version: "}

\* The returned error of call c reports the last answer c itself received:
\* the cause of its transport error, or its status.
ReportsOwnAnswer(c) ==
    IF c.lastResp.net THEN c.retErr[Len(c.retErr)] = c.lastResp.cause
    ELSE Contains(c.retErr, Itoa(c.lastResp.status))

\* C22: Concurrent calls are independent.  Each call counts its own
\* attempts (the loop variable equals the number of answers this call
\* received in the loop, and a loop runs out only after three answers of its
\* own), sends its own token, and returns an error that reports its own last
\* answer (after the create loop: the error this call remembered); and a step
\* of one call leaves the record of the other unchanged.
C22_Independent ==
    /\ [](\A p \in Procs :
            LET c == calls[p] IN
            /\ \A l \in Loops :
                   /\ Running(c, l) => c.attempt = c.answers[l].n
                   /\ c.reqs[l] <= c.answers[l].n + 1
                   /\ c.waits[l] <= c.answers[l].n
            /\ (c.pc = "done" /\ c.retErr # nil /\ Head(c.retErr) \in ExhaustedPrefixes)
                   => IF c.loop = "create"
                      THEN c.retErr = <<"failed to create secret: ">> \o c.createErr
                      ELSE /\ c.answers[c.loop].n = maxRetries
                           /\ ReportsOwnAnswer(c)
            /\ (c.pc = "done" /\ c.retErr # nil /\ c.retErr # ctxErr /\ c.loop # "none"
                     /\ Head(c.retErr) \notin ExhaustedPrefixes)
                   => ReportsOwnAnswer(c)
            /\ c.tok \in {<<>>, TokenOf(p)}
            /\ c.req.base = apiURL => c.req.auth = <<"Bearer ">> \o TokenOf(p))
    /\ [][\A p, q \in Procs :
            (p # q /\ calls'[p] # calls[p]) => calls'[q] = calls[q]]_vars

C22_Witness ==
    /\ calls[1].pc = "inflight"
    /\ calls[1].loop = "addVersion"
    /\ calls[1].attempt = 1
    /\ calls[1].req.auth = <<"Bearer ">> \o TokenOf(1)
    /\ calls[2].pc = "wait"
    /\ calls[2].loop = "access"
    /\ calls[2].attempt = 1
    /\ calls[2].req.auth = <<"Bearer ">> \o TokenOf(2)

\* The last answer call c received is a 200 to a request of loop l.
Got200(c, l) ==
    /\ LastAnswerOf(c, l)
    /\ c.reqs[l] >= 1
    /\ ~c.lastResp.net
    /\ c.lastResp.status = StatusOK

\* C23: No failure is swallowed but a 409 on create.  Fetch and
\* FetchFromProject return a nil error only if a secret-access request of the
\* call received a 200 whose body is a JSON object with a valid base64
\* payload; Store and StoreInProject return nil only if the create phase
\* ended with its success or a 409 and an add-version request of the call
\* received a 200.
C23_NoFailureSwallowed ==
    \A p \in Procs :
        LET c == calls[p] IN
        /\ (c.op \in FetchOps /\ Succeeded(c))
               => /\ Got200(c, "access")
                  /\ c.lastResp.readOK
                  /\ JsonValid(c.lastResp)
                  /\ c.lastResp.present => c.lastResp.wf
        /\ (c.op \in StoreOps /\ Succeeded(c))
               => /\ Got200(c, "addVersion")
                  /\ c.answers["create"].last \in {"ok", "409"}

\* The openings of the messages that name a phase.
PhasePrefixes ==
    ExhaustedPrefixes \cup
        {"failed to access secret: status ", "failed to create secret: status ",
         "failed to add secret version: status "}

\* C24: Every error a call returns after one of its network sub-calls has
\* started names the phase it occurred in, on every failure path: terminal
\* 4xx, exhausted attempts and cancellation.  (The error of a detected
\* project ID that fails validation, which occurs between two phases, is set
\* aside.)
C24_ErrorNamesPhase ==
    \A p \in Procs :
        LET c == calls[p] IN
        (c.pc = "done" /\ c.retErr # nil /\ c.loop # "none"
             /\ Head(c.retErr) # "invalid project ID format: ")
            => Head(c.retErr) \in PhasePrefixes

\* C25: After every attempt that received a response, on every path, the
\* body of the response has been read to its end and closed by the time the
\* loop goes on or the call returns; no body is ever left open.
C25_BodyDrainedAndClosed ==
    \A p \in Procs :
        LET c == calls[p] IN
        /\ c.body # "open"
        /\ (c.lastResp # NoResp /\ ~c.lastResp.net) => c.body = "drained"

\* C26: Each retry loop attempts, and an attempt ends in success, a
\* retryable failure or a terminal failure.  A loop is attempting only while
\* it has made fewer than three attempts; a retryable failure is followed by
\* another attempt only if fewer than three attempts were made and the
\* context is not done, and otherwise the call fails (after the third
\* retryable failure it has returned an error; from a wait with the context
\* done it returns an error); and once the call has returned nothing of it
\* changes any more: no further request, one outcome.
C26_RetryStateMachine ==
    /\ [](\A p \in Procs : \A l \in Loops :
            LET c == calls[p] IN
            /\ Running(c, l) => c.answers[l].n < maxRetries
            /\ (c.answers[l].n = maxRetries /\ c.answers[l].last = "transient")
                   => (c.pc = "done" /\ c.retErr # nil))
    /\ [][\A p \in Procs :
            /\ (calls[p].pc = "wait" /\ calls'[p].pc = "send")
                   => /\ ~calls[p].ctxDone
                      /\ calls[p].answers[calls[p].loop].n < maxRetries
            /\ (calls[p].pc = "wait" /\ calls[p].ctxDone /\ calls'[p] # calls[p])
                   => (calls'[p].pc = "done" /\ calls'[p].retErr # nil)
            /\ calls[p].pc = "done" => calls'[p] = calls[p]]_vars

\* C27: A call gets its token from one successful lookup of its own, made
\* before its first request to the Secret Manager API; every API request of
\* the call carries that token; no token request follows a successful
\* lookup or an API request; and the token of one call is never sent by
\* another.
C27_OwnToken ==
    /\ [](\A p \in Procs :
            LET c == calls[p] IN
            /\ c.tok \in {<<>>, TokenOf(p)}
            /\ (APIRequests(c) > 0 \/ c.req.base = apiURL)
                   => /\ c.answers["token"].last = "ok"
                      /\ c.reqs["token"] >= 1
                      /\ c.tok = TokenOf(p)
            /\ c.req.base = apiURL => c.req.auth = <<"Bearer ">> \o c.tok
            /\ \A q \in Procs :
                   (q # p /\ c.req.base = apiURL /\ calls[q].req.base = apiURL)
                       => c.req.auth # calls[q].req.auth)
    /\ [][\A p \in Procs :
            /\ calls'[p].reqs["token"] # calls[p].reqs["token"]
                   => (APIRequests(calls[p]) = 0 /\ calls[p].tok = <<>>)
            /\ calls[p].tok # <<>> => calls'[p].tok = calls[p].tok]_vars

C27_Witness ==
    /\ calls[1].op \in StoreOps
    /\ calls[1].loop = "addVersion"
    /\ calls[1].reqs["create"] = 2
    /\ calls[1].reqs["addVersion"] = 2
    /\ calls[1].reqs["token"] = 1
    /\ calls[1].req.auth = <<"Bearer ">> \o TokenOf(1)
    /\ calls[2].op \in FetchOps
    /\ calls[2].reqs["access"] = 1
    /\ calls[2].reqs["token"] = 1
    /\ calls[2].req.auth = <<"Bearer ">> \o TokenOf(2)

\* C28: Every request to the Secret Manager API names, in its URL, a project
\* ID and a secret name that match their patterns, also when the project ID
\* was detected; and when the metadata server's answer, trimmed, is a
\* non-empty text that does not match the project-ID pattern, Fetch and Store
\* have returned "invalid project ID format" without any token request or
\* API request.
C28_ValidatedBeforeUse ==
    \A p \in Procs :
        LET c == calls[p] IN
        /\ c.req.base = apiURL
               => (IsProjectID(c.req.project) /\ IsSecretName(c.req.secret))
        /\ (c.op \in {"Fetch", "Store"}
                /\ LastAnswerOf(c, "projectID")
                /\ ProjectIDText(c.lastResp)
                /\ ProjectIDRead(c.lastResp) # <<>>
                /\ ~IsProjectID(ProjectIDRead(c.lastResp)))
               => /\ c.pc = "done"
                  /\ c.retErr = <<"invalid project ID format: ">> \o ProjectIDRead(c.lastResp)
                  /\ c.reqs["token"] = 0
                  /\ APIRequests(c) = 0

C28_Witness ==
    \E p \in Procs :
        LET c == calls[p] IN
        /\ c.op = "Store"
        /\ c.answers["projectID"].n = 2
        /\ c.lastResp.plain = <<"B", "a", "d">>
        /\ c.pc = "done"
        /\ Head(c.retErr) = "invalid project ID format: "
        /\ c.reqs["token"] = 0

\* Call p has been made and has not returned.
InProgress(p) == calls[p].op # "none" /\ calls[p].pc # "done"

\* C29: Termination.  Given that every httpClient.Do returns and every
\* retry wait elapses or is cancelled, a call that is made returns, whatever
\* the answers and cancellations: whenever a call is in progress, a time
\* comes when none is.
C29_Terminates ==
    (\E p \in Procs : InProgress(p)) ~> (\A p \in Procs : ~InProgress(p))

C29_Witness ==
    \E p \in Procs :
        LET c == calls[p] IN
        /\ c.op = "Store"
        /\ c.pc = "done"
        /\ c.loop = "addVersion"
        /\ c.reqs["projectID"] + c.reqs["token"] + c.reqs["create"]
               + c.reqs["addVersion"] = 4 * maxRetries
        /\ c.waits["addVersion"] = maxRetries - 1

\* The attempts loop l of call c has begun, and the retry waits it has waited
\* out (a wait in progress, or one the context cut short, is not one).
Attempts(c, l) ==
    c.answers[l].n + (IF c.loop = l /\ c.pc \in {"send", "inflight"} THEN 1 ELSE 0)
Elapsed(c, l) ==
    c.waits[l] - (IF c.loop = l /\ (c.pc = "wait" \/ (c.pc = "done" /\ c.retErr = ctxErr))
                  THEN 1 ELSE 0)

\* C30: In every retry loop there is no wait before the first attempt and
\* exactly one before each later attempt (at an attempt the waits so far
\* equal the loop variable), a wait only follows a failed attempt that has a
\* successor, and none follows the last attempt, a success or a terminal
\* failure: a loop that began n >= 1 attempts waited out at most n-1 waits,
\* and never starts more than 2.
C30_WaitsBetweenAttempts ==
    /\ [](\A p \in Procs : \A l \in Loops :
            LET c == calls[p] IN
            /\ c.waits[l] <= maxRetries - 1
            /\ c.waits[l] <= c.answers[l].n
            /\ (c.loop = l /\ c.pc \in {"send", "inflight"}) => c.waits[l] = c.attempt
            /\ (c.loop = l /\ c.pc = "wait") => (c.attempt >= 1 /\ c.waits[l] = c.attempt)
            /\ Attempts(c, l) = 0 => c.waits[l] = 0
            /\ Attempts(c, l) >= 1 => Elapsed(c, l) <= Attempts(c, l) - 1
            /\ (~c.ctxDone /\ c.reqs[l] >= 1 /\ ~(c.loop = l /\ c.pc \in {"wait", "send"}))
                   => c.waits[l] <= c.reqs[l] - 1)
    /\ [][\A p \in Procs :
            calls'[p].waits # calls[p].waits
                => /\ calls[p].pc = "inflight"
                   /\ calls'[p].pc = "wait"
                   /\ calls'[p].loop = calls[p].loop
                   /\ calls'[p].waits =
                        [calls[p].waits EXCEPT ![calls[p].loop] = @ + 1]]_vars

C30_Witness ==
    \E p \in Procs :
        LET c == calls[p] IN
        /\ c.op = "Fetch"
        /\ c.pc = "done"
        /\ c.retErr # nil
        /\ c.reqs["projectID"] = 2 /\ c.waits["projectID"] = 1
        /\ c.reqs["token"] = 1 /\ c.waits["token"] = 0
        /\ c.reqs["access"] = maxRetries /\ c.waits["access"] = maxRetries - 1

\* The message that wraps the remembered error of loop l.
PrefixOf(l) ==
    CASE l = "projectID" -> "failed to get project ID: "
      [] l = "token" -> "failed to get access token: "
      [] l = "access" -> "failed to access secret: "
      [] l = "create" -> "failed to create secret: "
      [] l = "addVersion" -> "failed to add secret version: "

\* The failure of an attempt of loop l that was answered r, when that
\* failure is one the loop retries; nil when the attempt succeeded or ended
\* the call (the 4xx of the Secret Manager API, the 409 on create).
FailureOf(l, r) ==
    IF r.net
    THEN <<IF l \in {"create", "addVersion"} THEN "Post" ELSE "Get", " \"url\": ", r.cause>>
    ELSE IF l \in {"projectID", "token"} /\ r.status # StatusOK
    THEN <<"metadata server status ", Itoa(r.status)>>
    ELSE IF l \notin {"projectID", "token"} /\ r.status \in 400..499 THEN nil
    ELSE IF r.status \in SuccessStatuses(l)
    THEN CASE l = "projectID" ->
                IF ~r.readOK THEN <<"unexpected EOF">>
                ELSE IF ProjectIDRead(r) = <<>> THEN <<"empty project ID">>
                ELSE nil
           [] l = "token" ->
                IF ~r.readOK THEN <<"unexpected EOF">>
                ELSE IF ~r.json \/ Truncated(r) THEN <<"invalid character">>
                ELSE IF ~r.present \/ r.val = <<>> THEN <<"empty access token">>
                ELSE nil
           [] l = "access" ->
                IF UnusableAccessBody(r) THEN UnusableAccessErr(r) ELSE nil
           [] OTHER -> nil
    ELSE IF l = "access" THEN <<"status ", Itoa(r.status)>>
    ELSE <<"status ", Itoa(r.status), ": ">> \o r.val

\* C31: When a retry loop has used up its three attempts (the third answer
\* too is a failure the loop retries) and the call has returned from it, the
\* error returned is the failure of that last attempt under the loop's
\* prefix; and the cause wrapped under such a prefix is never nil.
C31_WrapsLastFailure ==
    \A p \in Procs :
        LET c == calls[p] IN
        /\ \A l \in Loops :
               (c.pc = "done" /\ c.loop = l /\ c.answers[l].n = maxRetries
                    /\ FailureOf(l, c.lastResp) # nil)
                   => c.retErr = <<PrefixOf(l)>> \o FailureOf(l, c.lastResp)
        /\ (c.pc = "done" /\ c.retErr # nil /\ Head(c.retErr) \in ExhaustedPrefixes)
               => Len(c.retErr) > 1

C31_Witness ==
    \E p \in Procs :
        LET c == calls[p] IN
        /\ c.op = "StoreInProject"
        /\ c.pc = "done"
        /\ c.loop = "addVersion"
        /\ c.answers["addVersion"].n = maxRetries
        /\ c.lastResp = StatusResp(201, <<>>)
        /\ c.retErr = <<"failed to add secret version: ", "status ", "201", ": ">>

\* The attempts of loop l for which call c has called httpClient.Do.
Sent(c, l) == c.answers[l].n + (IF c.loop = l /\ c.pc = "inflight" THEN 1 ELSE 0)

ConflictOnRetry(c) ==
    /\ c.answers["create"].n >= 2
    /\ c.answers["create"].last = "409"
    /\ c.answers["create"].transientBefore

\* C33: A 409 received by the second or third create attempt, after
\* transient failures of the attempts before it, is handled like a 409 on
\* the first attempt: the create loop stops without a further wait or
\* request, the earlier failure is dropped (the call returns no error of the
\* create phase; any error it returns comes from add-version or from the
\* context), and the add-version phase starts with its first attempt.
C33_ConflictAfterTransient ==
    \A p \in Procs :
        LET c == calls[p] IN
        ConflictOnRetry(c)
            => /\ c.loop = "addVersion"
               /\ c.waits["create"] = c.answers["create"].n - 1
               /\ c.reqs["create"] <= c.answers["create"].n
               /\ ~IsCreateErr(c.retErr)
               /\ (c.pc = "done" /\ c.retErr # nil)
                      => \/ c.retErr = ctxErr
                         \/ Head(c.retErr) \in {"failed to add secret version: ",
                                                 "failed to add secret version: status "}
               /\ (c.pc = "done" /\ c.answers["addVersion"].last = "ok") => c.retErr = nil
               /\ \/ c.pc = "send" /\ c.attempt = 0
                  \/ Sent(c, "addVersion") >= 1

C33_Witness ==
    \E p \in Procs :
        LET c == calls[p] IN
        /\ c.op = "Store"
        /\ c.answers["create"].n = maxRetries
        /\ ConflictOnRetry(c)
        /\ c.reqs["create"] = maxRetries
        /\ c.answers["addVersion"].n = 1
        /\ c.answers["addVersion"].last = "ok"
        /\ Succeeded(c)

\* A 200 whose body is a JSON object without payload data, or with empty
\* payload data.
EmptyPayload(r) ==
    /\ ~r.net /\ r.status = StatusOK /\ r.readOK /\ r.json /\ ~Truncated(r)
    /\ ~r.present \/ r.val = <<>>

\* C34: When the secret-access endpoint answers 200 with well-formed JSON
\* that has no payload data or empty payload data, the fetch has returned the
\* empty string with a nil error, without another request or wait: the
\* secret access has no test for an empty result, unlike the token lookup,
\* for which the same kind of answer is a failed attempt that yields no
\* token.
C34_EmptyPayloadIsSuccess ==
    \A p \in Procs :
        LET c == calls[p] IN
        /\ (c.loop = "access" /\ c.answers["access"].n >= 1 /\ EmptyPayload(c.lastResp))
               => /\ c.pc = "done"
                  /\ c.retErr = nil
                  /\ c.retVal = <<>>
                  /\ c.reqs["access"] <= c.answers["access"].n
                  /\ c.waits["access"] = c.answers["access"].n - 1
        /\ (c.loop = "token" /\ c.answers["token"].n >= 1 /\ EmptyPayload(c.lastResp))
               => /\ c.tok = <<>>
                  /\ c.pc = "done" => c.retErr # nil

C34_Witness ==
    \E p \in Procs :
        LET c == calls[p] IN
        /\ c.op = "FetchFromProject"
        /\ c.loop = "access"
        /\ c.answers["access"].n = 2
        /\ EmptyPayload(c.lastResp)
        /\ ~c.lastResp.present
        /\ c.pc = "done"
        /\ c.retErr = nil
        /\ c.retVal = <<>>

\* A response with a status that is neither a success of loop l nor a
\* client error.
OtherStatus(l, r) ==
    /\ ~r.net
    /\ r.status \notin SuccessStatuses(l)
    /\ r.status \notin 400..499

\* C35: The add-version phase takes only a 200 for success: after any other
\* status outside 4xx (201, 204, 302, 503) the call has not succeeded, the
\* loop sends the add-version POST again while attempts remain, and after
\* the third attempt the call has returned that status under "failed to add
\* secret version: ".  Likewise the create phase stops asking on 200 and 201
\* and, after any other status outside 4xx, sends the create POST again while
\* attempts remain, without an add-version request.
C35_OnlySuccessStatusEndsLoop ==
    \A p \in Procs :
        LET c == calls[p]
            r == c.lastResp
        IN
        /\ (c.loop = "addVersion" /\ c.answers["addVersion"].n >= 1 /\ ~r.net)
               => /\ r.status = StatusOK => Succeeded(c)
                  /\ OtherStatus("addVersion", r)
                         => /\ ~Succeeded(c)
                            /\ RetriedThenFails(c, "addVersion",
                                                "failed to add secret version: ",
                                                <<"status ", Itoa(r.status), ": ">> \o r.val)
                            /\ Running(c, "addVersion") => c.req.path = ":addVersion"
        /\ (c.loop = "create" /\ c.answers["create"].n >= 1 /\ ~r.net)
               => /\ r.status \in {StatusOK, StatusCreated} => ~Running(c, "create")
                  /\ OtherStatus("create", r)
                         => /\ c.reqs["addVersion"] = 0
                            /\ c.reqs["create"] <= maxRetries
                            /\ c.answers["create"].n < maxRetries
                                   => \/ Running(c, "create")
                                            /\ c.attempt = c.answers["create"].n
                                            /\ c.req.path = "/secrets?secretId="
                                      \/ c.pc = "done" /\ c.retErr = ctxErr

C35_Witness ==
    \E p \in Procs :
        LET c == calls[p] IN
        /\ c.op = "StoreInProject"
        /\ c.answers["create"].n = 2
        /\ ~c.answers["create"].transientBefore
        /\ c.answers["create"].last = "409"
        /\ c.answers["addVersion"].n = maxRetries
        /\ c.reqs["addVersion"] = maxRetries
        /\ c.lastResp = StatusResp(302, <<>>)
        /\ c.pc = "done"
        /\ c.retErr = <<"failed to add secret version: ", "status ", "302", ": ">>

\* C36: Fetch and FetchFromProject are read-only.  Every request of a fetch
\* is a GET without a body, a fetch makes no create and no add-version
\* request and no version on the server comes from it, and no step of a
\* fetch (its requests, their answers lost or not, its cancellation, its
\* return) changes whether the secret exists or which versions it has.
C36_FetchReadOnly ==
    /\ [](\A p \in Procs :
            LET c == calls[p] IN
            c.op \in FetchOps
                => /\ c.req.method \in {"", "GET"}
                   /\ c.req.body = <<>>
                   /\ c.reqs["create"] = 0
                   /\ c.reqs["addVersion"] = 0
                   /\ c.loop \notin {"create", "addVersion"}
                   /\ Added(p) = 0)
    /\ [][\A p \in Procs :
            (calls'[p].op \in FetchOps /\ calls'[p] # calls[p])
                => /\ server'.exists = server.exists
                   /\ server'.versions = server.versions]_vars

C36_Witness ==
    /\ calls[1].op \in StoreOps /\ Succeeded(calls[1])
    /\ calls[2].op = "Fetch"
    /\ calls[2].pc = "done"
    /\ calls[2].retErr # nil
    /\ calls[2].ctxDone
    /\ calls[2].reqs["access"] = 2
    /\ calls[2].req.method = "GET"
    /\ Len(server.versions) = 1

\* Both calls are stores that have returned, and nothing disturbed them: no
\* answer was lost or replaced, no context cancelled.
BothStoredUndisturbed ==
    /\ \A p \in Procs : calls[p].op \in StoreOps /\ calls[p].pc = "done"
    /\ server.faults = 0

\* C37: Two stores of the same secret that run concurrently against a
\* healthy service both return nil, however their steps interleave: one
\* create was answered 200 and the other 409 (or both 409), neither was
\* retried, the secret holds exactly one version from each call, each the
\* base64 text of its call's value, and the latest version is the one of
\* the add-version request the service carried out last (every version is
\* appended when its request is carried out, after the ones already there).
C37_ConcurrentStores ==
    /\ [](BothStoredUndisturbed
            => /\ \A p \in Procs :
                    /\ calls[p].retErr = nil
                    /\ Added(p) = 1
                    /\ calls[p].reqs["create"] = 1
                    /\ calls[p].reqs["addVersion"] = 1
               /\ {calls[p].answers["create"].last : p \in Procs} \in {{"ok", "409"}, {"409"}}
               /\ Cardinality({p \in Procs : calls[p].answers["create"].last = "ok"}) <= 1
               /\ Len(server.versions) = 2
               /\ \A i \in 1..2 :
                    LET v == server.versions[i] IN
                    DecodeString(v.data) = [ok |-> TRUE, bytes |-> calls[v.by].value])
    /\ [][server'.versions # server.versions
            => \E p \in Procs :
                 /\ calls[p].pc = "inflight" /\ calls[p].loop = "addVersion"
                 /\ calls'[p] # calls[p]
                 /\ server'.versions =
                        Append(server.versions,
                               [data |-> EncodeToString(calls[p].value),
                                value |-> calls[p].value, by |-> p])]_vars

C37_Witness ==
    /\ BothStoredUndisturbed
    /\ calls[1].op = "StoreInProject" /\ calls[2].op = "StoreInProject"
    /\ calls[1].answers["create"].last = "409"
    /\ calls[2].answers["create"].last = "ok"
    /\ Succeeded(calls[1]) /\ Succeeded(calls[2])
    /\ Len(server.versions) = 2
    /\ server.versions[1].by = 1
    /\ server.versions[2].by = 2
    /\ server.versions[2].value = calls[2].value

\* The requests call c has handed to httpClient.Do, the requests it has put
\* on the network, and the retry waits it has started, over all its loops.
TotalSent(c) ==
    Sent(c, "projectID") + Sent(c, "token") + Sent(c, "access")
        + Sent(c, "create") + Sent(c, "addVersion")
TotalRequests(c) ==
    c.reqs["projectID"] + c.reqs["token"] + c.reqs["access"]
        + c.reqs["create"] + c.reqs["addVersion"]
TotalWaits(c) ==
    c.waits["projectID"] + c.waits["token"] + c.waits["access"]
        + c.waits["create"] + c.waits["addVersion"]

\* C38: One top-level call issues at most 6 requests (FetchFromProject), 9
\* (Fetch), 9 (StoreInProject) or 12 (Store), and makes at most 4, 6, 6 or 8
\* retry waits.
C38_BoundedRequests ==
    \A p \in Procs :
        LET c == calls[p]
            most == CASE c.op = "FetchFromProject" -> [reqs |-> 6, waits |-> 4]
                      [] c.op = "Fetch" -> [reqs |-> 9, waits |-> 6]
                      [] c.op = "StoreInProject" -> [reqs |-> 9, waits |-> 6]
                      [] c.op = "Store" -> [reqs |-> 12, waits |-> 8]
                      [] OTHER -> [reqs |-> 0, waits |-> 0]
        IN /\ TotalRequests(c) <= TotalSent(c)
           /\ TotalSent(c) <= most.reqs
           /\ TotalWaits(c) <= most.waits

C38_Witness ==
    \E p \in Procs :
        LET c == calls[p] IN
        /\ c.op = "Store"
        /\ c.pc = "done"
        /\ TotalRequests(c) = 12
        /\ TotalWaits(c) = 8

\* Call c is a store that has returned an error.
StoreFailed(c) == c.op \in StoreOps /\ c.pc = "done" /\ c.retErr # nil

\* C39 as claimed: a store that has returned an error has added no version
\* to the secret.
C39_NoVersionOnError ==
    \A p \in Procs : StoreFailed(calls[p]) => Added(p) = 0

\* C39 as amended: a store that has returned an error never got a 200 from
\* add-version, and has added no version when it made no add-version request
\* or when the service refused its only one.  The versions it has added
\* come from add-version requests the service carried out while their
\* answer was lost, replaced by a 5xx or cut off by the cancellation: at most
\* one for each such answer, each carrying the call's value.
C39_VersionsOnlyFromLostAnswers ==
    \A p \in Procs :
        LET c == calls[p] IN
        StoreFailed(c)
            => /\ c.answers["addVersion"].last # "ok"
               /\ c.answers["addVersion"].transientBefore
               /\ Added(p) <= Unacknowledged(c)
               /\ Added(p) <= c.reqs["addVersion"]
               /\ c.reqs["addVersion"] = 0 => Added(p) = 0
               /\ \A i \in DOMAIN server.versions :
                      server.versions[i].by = p
                          => DecodeString(server.versions[i].data) =
                                 [ok |-> TRUE, bytes |-> c.value]

C39_Witness ==
    \E p \in Procs :
        LET c == calls[p] IN
        /\ c.op = "StoreInProject"
        /\ c.loop = "addVersion"
        /\ c.pc = "done"
        /\ c.retErr = ctxErr
        /\ c.answers["addVersion"].n = 1
        /\ c.answers["addVersion"].last = "transient"
        /\ Added(p) = 1
        /\ server.versions[1].value = c.value

====
